---- MODULE Spec2Model ----
(***************************************************************************)
(* Model of gitraf-server: the origin-based access gate (tailnet.go,       *)
(* handlers.go, lfs.go) and the repository content engine (git.go).        *)
(*                                                                         *)
(* Strings that the code inspects character by character (address          *)
(* literals, header values) are sequences of tokens: the punctuation       *)
(* characters "[", "]", ":", ".", ",", " " are tokens of their own and a   *)
(* maximal run of alphanumeric characters is one token.  Strings that the  *)
(* code only compares for equality (repository names, reference names,     *)
(* revision ids) are TLA+ strings.                                         *)
(***************************************************************************)
EXTENDS Integers, Sequences, FiniteSets, TLC

VARIABLES
    lit,        \* SpecIP: the address literal handed to IsTailnetIP
    verdict,    \* SpecIP: <<what IsTailnetIP returned for lit>>, <<>> before the call
    hdrs,       \* SpecIP: (remoteAddr, xForwardedFor, xRealIP) handed to GetClientIP
    clientIP,   \* SpecIP: <<what GetClientIP returned for hdrs>>, <<>> before the call
    refs,       \* SpecGit: the repository, [branches, tags, objects]
    res,        \* SpecGit: <<[ref, out]>> of the resolveRef call made in the last step, else <<>>
    tree,       \* SpecGit: the handleTree request in progress and what it has read
    repos,      \* Spec, SpecAdmin: the repositories directory, repository name -> its files
    admin,      \* Spec, SpecAdmin: the server-level files (ssh key, LFS and backup config, build)
    last,       \* Spec, SpecAdmin: the request handled in the last step and its response
    input,      \* SpecTree, SpecDiff, SpecSubmodule, SpecURL: the arguments of the function
    output      \* the same: the results of the calls made so far, in order

ipVars == <<lit, verdict, hdrs, clientIP>>
gitVars == <<refs, res, tree>>
srvVars == <<repos, admin, last>>
fnVars == <<input, output>>
vars == <<lit, verdict, hdrs, clientIP, refs, res, tree, repos, admin, last,
          input, output>>

----------------------------------------------------------------------------
(* Helpers of the Go standard library, on token sequences.                 *)

\* strings.Count(s, t) for a one-character t
Count(s, t) == Cardinality({i \in 1..Len(s) : s[i] = t})

\* strings.Contains(s, t) for a one-character t
Contains(s, t) == \E i \in 1..Len(s) : s[i] = t

\* strings.HasPrefix(s, t) for a one-character t
HasPrefix(s, t) == Len(s) >= 1 /\ s[1] = t

\* strings.HasSuffix(s, t) for a one-character t
HasSuffix(s, t) == Len(s) >= 1 /\ s[Len(s)] = t

\* strings.LastIndex(s, t) for a one-character t, 1-based, 0 when absent
LastIndex(s, t) ==
    IF Contains(s, t)
    THEN CHOOSE i \in 1..Len(s) : s[i] = t /\ \A j \in (i+1)..Len(s) : s[j] # t
    ELSE 0

\* strings.LastIndex(s, "]:"), 1-based position of the "]", 0 when absent
LastIndexBracketColon(s) ==
    LET P == {i \in 1..(Len(s)-1) : s[i] = "]" /\ s[i+1] = ":"}
    IN IF P = {} THEN 0 ELSE CHOOSE i \in P : \A j \in P : j <= i

\* strings.TrimSpace(s)
RECURSIVE TrimLeft(_)
TrimLeft(s) == IF Len(s) > 0 /\ s[1] = " " THEN TrimLeft(Tail(s)) ELSE s

RECURSIVE TrimRight(_)
TrimRight(s) ==
    IF Len(s) > 0 /\ s[Len(s)] = " " THEN TrimRight(SubSeq(s, 1, Len(s)-1)) ELSE s

TrimSpace(s) == TrimRight(TrimLeft(s))

\* strings.Split(s, ",")[0]: everything before the first comma
FirstCommaField(s) ==
    IF Contains(s, ",")
    THEN SubSeq(s, 1, (CHOOSE i \in 1..Len(s) : s[i] = "," /\ \A j \in 1..(i-1) : s[j] # ",") - 1)
    ELSE s

----------------------------------------------------------------------------
(* net.ParseIP, on token sequences.  A group token is a run of             *)
(* alphanumeric characters; DecVal gives its value read as a decimal       *)
(* IPv4 field and HexVal its value read as a hexadecimal IPv6 field, -1    *)
(* when the token is not such a field.  Groups are the group tokens the    *)
(* inputs are written with.                                                *)

Groups == {"0", "1", "8", "10", "63", "64", "80", "100", "127", "128",
           "255", "256", "6440", "ffff", "fe80", "zz"}

DecVal(t) ==
    CASE t = "0" -> 0 [] t = "1" -> 1 [] t = "8" -> 8 [] t = "10" -> 10
      [] t = "63" -> 63 [] t = "64" -> 64 [] t = "80" -> 80 [] t = "100" -> 100
      [] t = "127" -> 127 [] t = "128" -> 128 [] t = "255" -> 255
      [] t = "256" -> 256 [] t = "6440" -> 6440
      [] OTHER -> -1

HexVal(t) ==
    CASE t = "0" -> 0 [] t = "1" -> 1 [] t = "8" -> 8 [] t = "10" -> 16
      [] t = "63" -> 99 [] t = "64" -> 100 [] t = "80" -> 128 [] t = "100" -> 256
      [] t = "127" -> 295 [] t = "128" -> 296 [] t = "255" -> 597
      [] t = "256" -> 598 [] t = "6440" -> 25664
      [] t = "ffff" -> 65535 [] t = "fe80" -> 65152
      [] OTHER -> -1

NoIP == <<>>

\* netip.parseIPv4Fields: exactly four decimal fields 0..255 separated by dots
parseIPv4Fields(s) ==
    IF /\ Len(s) = 7
       /\ s[2] = "." /\ s[4] = "." /\ s[6] = "."
       /\ \A i \in {1, 3, 5, 7} : DecVal(s[i]) >= 0 /\ DecVal(s[i]) <= 255
    THEN <<DecVal(s[1]), DecVal(s[3]), DecVal(s[5]), DecVal(s[7])>>
    ELSE NoIP

\* the 16-byte form of an IPv4 address, as eight 16-bit groups
v4InV6(a) == <<0, 0, 0, 0, 0, 65535, a[1] * 256 + a[2], a[3] * 256 + a[4]>>

Zeros(n) == [i \in 1..n |-> 0]

\* netip.parseIPv6: the loop over the colon-separated fields.  s is the
\* text still to read, g the groups read so far, ell the number of groups
\* read before the "::" (-1 when none was seen).
RECURSIVE parseIPv6Loop(_, _, _)
parseIPv6Loop(s, g, ell) ==
    IF Len(g) >= 8
    THEN \* the loop ends with all 16 bytes filled
         IF Len(s) # 0 THEN NoIP            \* trailing garbage
         ELSE IF ell >= 0 THEN NoIP         \* "::" must expand to a field
         ELSE g
    ELSE IF Len(s) = 0 \/ HexVal(s[1]) < 0
    THEN NoIP                               \* field without a hex digit
    ELSE IF Len(s) >= 2 /\ s[2] = "."
    THEN \* trailing embedded IPv4
         IF (ell < 0 /\ Len(g) # 6) \/ Len(g) + 2 > 8 THEN NoIP
         ELSE LET a == parseIPv4Fields(s)
              IN IF a = NoIP THEN NoIP
                 ELSE LET g2 == g \o <<a[1] * 256 + a[2], a[3] * 256 + a[4]>>
                      IN IF Len(g2) < 8
                         THEN SubSeq(g2, 1, ell) \o Zeros(8 - Len(g2))
                                  \o SubSeq(g2, ell + 1, Len(g2))
                         ELSE IF ell >= 0 THEN NoIP ELSE g2
    ELSE LET g2 == Append(g, HexVal(s[1]))
             r  == Tail(s)
         IN IF Len(r) = 0
            THEN \* end of text
                 IF Len(g2) < 8
                 THEN IF ell < 0 THEN NoIP
                      ELSE SubSeq(g2, 1, ell) \o Zeros(8 - Len(g2))
                               \o SubSeq(g2, ell + 1, Len(g2))
                 ELSE IF ell >= 0 THEN NoIP ELSE g2
            ELSE IF r[1] # ":" THEN NoIP    \* want colon
            ELSE IF Len(r) = 1 THEN NoIP    \* colon must be followed by more
            ELSE IF r[2] = ":"
            THEN \* ellipsis
                 IF ell >= 0 THEN NoIP      \* multiple "::"
                 ELSE IF Len(r) = 2
                 THEN IF Len(g2) < 8
                      THEN g2 \o Zeros(8 - Len(g2))
                      ELSE NoIP
                 ELSE parseIPv6Loop(SubSeq(r, 3, Len(r)), g2, Len(g2))
            ELSE parseIPv6Loop(Tail(r), g2, ell)

\* netip.parseIPv6: a leading "::" is the ellipsis at position 0
parseIPv6(s) ==
    IF Len(s) >= 2 /\ s[1] = ":" /\ s[2] = ":"
    THEN IF Len(s) = 2 THEN Zeros(8)
         ELSE parseIPv6Loop(SubSeq(s, 3, Len(s)), <<>>, 0)
    ELSE parseIPv6Loop(s, <<>>, -1)

\* net.ParseIP: the first "." or ":" of the text decides the family; the
\* result is the 16-byte form (eight groups), NoIP when the text is no address
ParseIP(s) ==
    LET P == {i \in 1..Len(s) : s[i] = "." \/ s[i] = ":"}
    IN IF P = {} THEN NoIP
       ELSE LET first == CHOOSE i \in P : \A j \in P : i <= j
            IN IF s[first] = "."
               THEN LET a == parseIPv4Fields(s)
                    IN IF a = NoIP THEN NoIP ELSE v4InV6(a)
               ELSE parseIPv6(s)

\* net.IP.To4: the four bytes of an IPv4 or IPv4-mapped address, else NoIP
To4(ip) ==
    IF /\ Len(ip) = 8
       /\ \A i \in 1..5 : ip[i] = 0
       /\ ip[6] = 65535
    THEN <<ip[7] \div 256, ip[7] % 256, ip[8] \div 256, ip[8] % 256>>
    ELSE NoIP

----------------------------------------------------------------------------
(* tailnet.go                                                              *)

\* cleanIPString that strips the port of a bracketed literal but keeps
\* the brackets of one without a port
cleanIPString_keepsBrackets(ipStr) ==
    IF HasPrefix(ipStr, "[")
    THEN IF LastIndexBracketColon(ipStr) # 0
         THEN SubSeq(ipStr, 2, LastIndexBracketColon(ipStr) - 1)
         ELSE ipStr
    ELSE IF Contains(ipStr, ":") /\ Count(ipStr, ":") = 1
    THEN SubSeq(ipStr, 1, LastIndex(ipStr, ":") - 1)
    ELSE ipStr

\* cleanIPString that cuts at the last colon whenever there is a colon
\* (mutant)
cleanIPString_anyColon(ipStr) ==
    IF HasPrefix(ipStr, "[")
    THEN IF LastIndexBracketColon(ipStr) # 0
         THEN SubSeq(ipStr, 2, LastIndexBracketColon(ipStr) - 1)
         ELSE IF HasSuffix(ipStr, "]")
         THEN SubSeq(ipStr, 2, Len(ipStr) - 1)
         ELSE ipStr
    ELSE IF Contains(ipStr, ":")
    THEN SubSeq(ipStr, 1, LastIndex(ipStr, ":") - 1)
    ELSE ipStr

cleanIPString(ipStr) ==
    IF HasPrefix(ipStr, "[")
    THEN IF LastIndexBracketColon(ipStr) # 0
         THEN SubSeq(ipStr, 2, LastIndexBracketColon(ipStr) - 1)
         ELSE IF HasSuffix(ipStr, "]")
         THEN SubSeq(ipStr, 2, Len(ipStr) - 1)
         ELSE ipStr
    ELSE IF Contains(ipStr, ":") /\ Count(ipStr, ":") = 1
    THEN SubSeq(ipStr, 1, LastIndex(ipStr, ":") - 1)
    ELSE ipStr

\* IsTailnetIP with the lower end of the range test off by one
IsTailnetIP_lowerOffByOne(ipStr) ==
    LET ip  == ParseIP(cleanIPString(ipStr))
        ip4 == To4(ip)
    IN IF ip = NoIP THEN FALSE
       ELSE IF ip4 = NoIP THEN FALSE
       ELSE ip4[1] = 100 /\ ip4[2] > 64 /\ ip4[2] <= 127

IsTailnetIP(ipStr) ==
    LET ip  == ParseIP(cleanIPString(ipStr))
        ip4 == To4(ip)
    IN IF ip = NoIP THEN FALSE
       ELSE IF ip4 = NoIP THEN FALSE
       ELSE ip4[1] = 100 /\ ip4[2] >= 64 /\ ip4[2] <= 127

\* GetClientIP that consults X-Forwarded-For before X-Real-IP
GetClientIP_forwardedFirst(remoteAddr, xForwardedFor, xRealIP) ==
    IF xForwardedFor # <<>>
    THEN cleanIPString(TrimSpace(FirstCommaField(xForwardedFor)))
    ELSE IF xRealIP # <<>>
    THEN cleanIPString(xRealIP)
    ELSE cleanIPString(remoteAddr)

GetClientIP(remoteAddr, xForwardedFor, xRealIP) ==
    IF xRealIP # <<>>
    THEN cleanIPString(xRealIP)
    ELSE IF xForwardedFor # <<>>
    THEN cleanIPString(TrimSpace(FirstCommaField(xForwardedFor)))
    ELSE cleanIPString(remoteAddr)

----------------------------------------------------------------------------
(* Inputs of the classifier.  Every literal is written down together with  *)
(* what it denotes: kind "v4" is a dotted quad (addr holds its four        *)
(* octets), kind "v6" is an address in IPv6 text form (addr holds the four *)
(* octets of the IPv4 address it maps to when it lies in ::ffff:0:0/96,    *)
(* else the empty tuple), kind "junk" is no address at all.  form says how *)
(* the address is wrapped: "bare", "port" (addr:port), "bracket" ([addr])  *)
(* or "bracketport" ([addr]:port).                                         *)

FirstOctets  == {"8", "10", "100", "127"}
SecondOctets == {"0", "63", "64", "100", "127", "128", "255"}
ThirdOctets  == {"0", "255"}

V4Text(a, b, c, d) == <<a, ".", b, ".", c, ".", d>>

V4Addresses ==
    {[text |-> V4Text(a, b, c, "1"), kind |-> "v4",
      addr |-> <<DecVal(a), DecVal(b), DecVal(c), 1>>] :
        a \in FirstOctets, b \in SecondOctets, c \in ThirdOctets}

V6Addresses ==
    { [text |-> <<":", ":">>, kind |-> "v6", addr |-> <<>>],
      [text |-> <<":", ":", "1">>, kind |-> "v6", addr |-> <<>>],
      [text |-> <<"fe80", ":", ":", "1">>, kind |-> "v6", addr |-> <<>>],
      [text |-> <<"fe80", ":", ":", "100", ".", "64", ".", "0", ".", "1">>,
       kind |-> "v6", addr |-> <<>>],
      [text |-> <<":", ":", "100", ".", "64", ".", "0", ".", "1">>,
       kind |-> "v6", addr |-> <<>>],
      [text |-> <<"100", ":", "64", ":", "0", ":", "1", ":", ":">>,
       kind |-> "v6", addr |-> <<>>],
      [text |-> <<":", ":", "ffff", ":", "100", ".", "64", ".", "0", ".", "1">>,
       kind |-> "v6", addr |-> <<100, 64, 0, 1>>],
      [text |-> <<":", ":", "ffff", ":", "100", ".", "127", ".", "255", ".", "1">>,
       kind |-> "v6", addr |-> <<100, 127, 255, 1>>],
      [text |-> <<":", ":", "ffff", ":", "100", ".", "128", ".", "0", ".", "1">>,
       kind |-> "v6", addr |-> <<100, 128, 0, 1>>],
      [text |-> <<":", ":", "ffff", ":", "8", ".", "8", ".", "8", ".", "8">>,
       kind |-> "v6", addr |-> <<8, 8, 8, 8>>],
      [text |-> <<":", ":", "ffff", ":", "6440", ":", "1">>,
       kind |-> "v6", addr |-> <<100, 64, 0, 1>>],
      [text |-> <<":", ":", "ffff", ":", "100", ":", "64">>,
       kind |-> "v6", addr |-> <<1, 0, 0, 100>>],
      [text |-> <<"0", ":", "0", ":", "0", ":", "0", ":", "0", ":", "ffff", ":",
                  "100", ".", "64", ".", "0", ".", "1">>,
       kind |-> "v6", addr |-> <<100, 64, 0, 1>>],
      [text |-> <<"0", ":", "0", ":", "0", ":", "0", ":", "0", ":", "ffff", ":",
                  "6440", ":", "1">>,
       kind |-> "v6", addr |-> <<100, 64, 0, 1>>] }

JunkTexts ==
    { [text |-> <<>>, kind |-> "junk", addr |-> <<>>],
      [text |-> <<"zz">>, kind |-> "junk", addr |-> <<>>],
      [text |-> <<"100">>, kind |-> "junk", addr |-> <<>>],
      [text |-> <<"100", ".", "64">>, kind |-> "junk", addr |-> <<>>],
      [text |-> <<"100", ".", "64", ".", "0", ".", "256">>, kind |-> "junk", addr |-> <<>>],
      [text |-> <<"100", ".", "64", ".", "0", ".", "1", ".", "1">>,
       kind |-> "junk", addr |-> <<>>],
      [text |-> <<"100", ".", "64", ".", "0", ".", "zz">>, kind |-> "junk", addr |-> <<>>],
      [text |-> <<":", ":", "ffff", ":", "100", ".", "64", ".", "0">>,
       kind |-> "junk", addr |-> <<>>],
      [text |-> <<":", ":", "ffff", ":", ":", "1">>, kind |-> "junk", addr |-> <<>>],
      [text |-> <<"fe80", ":", "1">>, kind |-> "junk", addr |-> <<>>],
      [text |-> <<":", ":", "zz">>, kind |-> "junk", addr |-> <<>>],
      [text |-> <<"1", ":", "1", ":", "1", ":", "1", ":", "1", ":", "1", ":",
                  "1", ":", "1", ":", "1">>,
       kind |-> "junk", addr |-> <<>>] }

Port == "80"

Wrap(x, form) ==
    [text |-> CASE form = "bare"        -> x.text
                [] form = "port"        -> x.text \o <<":", Port>>
                [] form = "bracket"     -> <<"[">> \o x.text \o <<"]">>
                [] form = "bracketport" -> <<"[">> \o x.text \o <<"]", ":", Port>>,
     kind |-> x.kind, addr |-> x.addr, form |-> form]

Literals ==
    {Wrap(x, f) : x \in V4Addresses, f \in {"bare", "port"}}
      \cup {Wrap(x, f) : x \in V6Addresses, f \in {"bare", "bracket", "bracketport"}}
      \cup {Wrap(x, f) : x \in JunkTexts, f \in {"bare", "bracket", "bracketport"}}
      \cup {Wrap(x, "bracketport") : x \in {y \in V4Addresses : y.addr[3] = 0}}

(* Inputs of GetClientIP.  An absent header is the empty string, as        *)
(* http.Header.Get returns it.  first is the first comma-separated token   *)
(* of the forwarded-for value, trimmed.                                    *)

PeerAddrs ==
    { <<"100", ".", "64", ".", "0", ".", "1", ":", "80">>,
      <<"8", ".", "8", ".", "8", ".", "8", ":", "80">>,
      <<"[", ":", ":", "1", "]", ":", "80">> }

ForwardedFors ==
    { [text |-> <<>>, first |-> <<>>],
      [text |-> <<"8", ".", "8", ".", "8", ".", "8", ",", " ", "1", ".", "1", ".", "1", ".", "1">>,
       first |-> <<"8", ".", "8", ".", "8", ".", "8">>],
      [text |-> <<" ", "100", ".", "100", ".", "1", ".", "1", " ", ",", "8", ".", "8", ".", "8", ".", "8">>,
       first |-> <<"100", ".", "100", ".", "1", ".", "1">>],
      [text |-> <<"100", ".", "64", ".", "0", ".", "1">>,
       first |-> <<"100", ".", "64", ".", "0", ".", "1">>],
      [text |-> <<" ", ",", "100", ".", "64", ".", "0", ".", "1">>,
       first |-> <<>>] }

RealIPs ==
    { <<>>,
      <<"100", ".", "100", ".", "1", ".", "1">>,
      <<"8", ".", "8", ".", "8", ".", "8">>,
      <<"100", ".", "64", ".", "0", ".", "1", ":", "80">> }

HeaderTriples ==
    {[remoteAddr |-> p, xff |-> f.text, xffFirst |-> f.first, xRealIP |-> x] :
        p \in PeerAddrs, f \in ForwardedFors, x \in RealIPs}

----------------------------------------------------------------------------
(* SpecIP: the classifier and the header selection applied to their        *)
(* inputs.                                                                 *)

InitIP ==
    /\ lit \in Literals
    /\ verdict = <<>>
    /\ hdrs \in HeaderTriples
    /\ clientIP = <<>>
    /\ refs = <<>> /\ res = <<>> /\ tree = <<>>
    /\ repos = <<>> /\ admin = <<>> /\ last = <<>>
    /\ input = <<>> /\ output = <<>>

\* IsTailnetIP(lit)
Classify ==
    /\ verdict = <<>>
    /\ verdict' = <<IsTailnetIP(lit.text)>>
    /\ UNCHANGED <<lit, hdrs, clientIP, gitVars, srvVars, fnVars>>

\* GetClientIP(hdrs)
SelectClient ==
    /\ clientIP = <<>>
    /\ clientIP' = <<GetClientIP(hdrs.remoteAddr, hdrs.xff, hdrs.xRealIP)>>
    /\ UNCHANGED <<lit, verdict, hdrs, gitVars, srvVars, fnVars>>

NextIP == Classify \/ SelectClient

SpecIP == InitIP /\ [][NextIP]_vars
----------------------------------------------------------------------------
(* The object store of one repository (go-git).  Objects are immutable and *)
(* content-addressed, so the store is a fixed table; only the references   *)
(* (branches, tags) move.  A snapshot is the set of entries reachable from *)
(* a commit's root tree, each with its path from the root.                 *)

CommitIds == {"c1", "c2", "c3"}

\* the ids of annotated tag objects: a tag reference holds either the id of
\* a commit (lightweight tag) or the id of a tag object (annotated tag);
\* Reference.Hash() is that id as it stands
TagObjectIds == {"t1"}

\* plumbing.ZeroHash
ZeroHash == "0000"

\* what r.Reference returns for a name that is no reference
NoRef == "noref"

BranchNames == {"main", "v1"}
TagNames    == {"v1"}

\* the branch HEAD is a symbolic reference to (refs/heads/main)
HeadBranch == "main"

\* the modules a .gitmodules blob unmarshals to (config.Modules), by blob id
Unmarshal(content) ==
    CASE content = "gm1" ->
             [ok |-> TRUE,
              mods |-> {[Name |-> "libc", Path |-> <<"c">>, URL |-> <<"git@", "github.com", ":", "org", "/", "libc", ".git">>, Branch |-> "stable"],
                        [Name |-> "libe", Path |-> <<"a", "e">>, URL |-> <<"https://", "example.com", "/", "org", "/", "libe", ".git">>, Branch |-> ""]}]
      [] content = "gm2" ->
             [ok |-> TRUE,
              mods |-> {[Name |-> "libd", Path |-> <<"d">>, URL |-> <<"..", "/", "libd">>, Branch |-> ""]}]
      [] content = "gm3" ->
             [ok |-> TRUE,
              mods |-> {[Name |-> "libc", Path |-> <<"c">>, URL |-> <<"git@", "github.com", ":", "org", "/", "libc", ".git">>, Branch |-> "stable"],
                        [Name |-> "libc-old", Path |-> <<"c">>, URL |-> <<"https://", "example.com", "/", "org", "/", "libe", ".git">>, Branch |-> ""]}]
      [] OTHER -> [ok |-> FALSE, mods |-> {}]

File(p, h, c) == [path |-> p, kind |-> "file", hash |-> h, content |-> c]
Dir(p, h)     == [path |-> p, kind |-> "dir", hash |-> h, content |-> ""]
Sub(p, h)     == [path |-> p, kind |-> "submodule", hash |-> h, content |-> ""]
\* a symbolic link: a blob that holds the target, under mode 0120000
Symlink(p, h, c) == [path |-> p, kind |-> "symlink", hash |-> h, content |-> c]

Snapshot(c) ==
    CASE c = "c1" ->
             { File(<<"README.md">>, "b-r1", "readme1"),
               File(<<".gitmodules">>, "b-g1", "gm1"),
               Dir(<<"a">>, "t-a1"),
               File(<<"a", "x.txt">>, "b-x1", "x1"),
               Sub(<<"a", "e">>, "s-e1"),
               File(<<"b.txt">>, "b-b1", "b1"),
               Sub(<<"c">>, "s-c1") }
      [] c = "c2" ->
             { File(<<"README.md">>, "b-r2", "readme2"),
               File(<<".gitmodules">>, "b-g2", "gm2"),
               Dir(<<"a">>, "t-a2"),
               File(<<"a", "x.txt">>, "b-x1", "x1"),
               Sub(<<"c">>, "s-c2"),
               Sub(<<"d">>, "s-d2") }
      [] c = "c3" ->
             { Dir(<<"a">>, "t-a2"),
               File(<<"a", "x.txt">>, "b-x1", "x1"),
               File(<<"b.txt">>, "b-b3", "b3"),
               Sub(<<"d">>, "s-d2") }
      [] c = "c5" ->
             { File(<<"README.md">>, "b-r1", "readme1"),
               Symlink(<<"link">>, "b-l5", "target5"),
               Dir(<<"a">>, "t-a2"),
               File(<<"a", "x.txt">>, "b-x1", "x1") }
      [] c = "c4" ->
             { File(<<".gitmodules">>, "b-g4", "garbled"),
               Sub(<<"d">>, "s-d2") }
      [] c = "c6" ->
             { File(<<".gitmodules">>, "b-g6", "gm3"),
               File(<<"b.txt">>, "b-b1", "b1"),
               Sub(<<"c">>, "s-c1") }
      [] OTHER -> {}

\* byte order of the entry names that occur (Go's < on strings)
NameOrder == <<".gitmodules", "README.md", "a", "b.txt", "c", "d", "e", "link", "x.txt">>

NameRank(n) == CHOOSE i \in 1..Len(NameOrder) : NameOrder[i] = n

----------------------------------------------------------------------------
(* git.go: references.  A repository handle r is the record of its         *)
(* references and objects: r.branches and r.tags map a short name to a     *)
(* commit id or NoRef, r.objects is the set of commits in its store.       *)

\* r.Reference(plumbing.NewBranchReferenceName(ref), true)
BranchRef(r, ref) == IF ref \in DOMAIN r.branches THEN r.branches[ref] ELSE NoRef

\* r.Reference(plumbing.NewTagReferenceName(ref), true)
TagRef(r, ref) == IF ref \in DOMAIN r.tags THEN r.tags[ref] ELSE NoRef

\* r.Head(): HEAD resolves iff the branch it points to exists
RepoHead(r) == BranchRef(r, HeadBranch)

\* plumbing.NewHash(ref): a reference string that is not the id of an
\* object decodes to a hash that names no object
NewHash(ref) == IF ref \in CommitIds \cup TagObjectIds THEN ref ELSE ZeroHash

\* r.CommitObject(hash) succeeds
CommitObject(r, hash) == hash \in r.objects

\* resolveRef with the tag tried before the branch
resolveRef_tagFirst(r, ref) ==
    IF TagRef(r, ref) # NoRef THEN [ok |-> TRUE, hash |-> TagRef(r, ref)]
    ELSE IF BranchRef(r, ref) # NoRef THEN [ok |-> TRUE, hash |-> BranchRef(r, ref)]
    ELSE IF (ref = "HEAD" \/ ref = "") /\ RepoHead(r) # NoRef
    THEN [ok |-> TRUE, hash |-> RepoHead(r)]
    ELSE IF CommitObject(r, NewHash(ref)) THEN [ok |-> TRUE, hash |-> NewHash(ref)]
    ELSE IF RepoHead(r) = NoRef THEN [ok |-> FALSE, hash |-> ZeroHash]
    ELSE [ok |-> TRUE, hash |-> RepoHead(r)]

resolveRef(r, ref) ==
    IF BranchRef(r, ref) # NoRef THEN [ok |-> TRUE, hash |-> BranchRef(r, ref)]
    ELSE IF TagRef(r, ref) # NoRef THEN [ok |-> TRUE, hash |-> TagRef(r, ref)]
    ELSE IF (ref = "HEAD" \/ ref = "") /\ RepoHead(r) # NoRef
    THEN [ok |-> TRUE, hash |-> RepoHead(r)]
    ELSE IF CommitObject(r, NewHash(ref)) THEN [ok |-> TRUE, hash |-> NewHash(ref)]
    ELSE IF RepoHead(r) = NoRef THEN [ok |-> FALSE, hash |-> ZeroHash]
    ELSE [ok |-> TRUE, hash |-> RepoHead(r)]

\* GetBranches: the short names of the branches, sorted
GetBranches(r) ==
    LET B == {b \in DOMAIN r.branches : r.branches[b] # NoRef}
    IN IF B = {} THEN <<>>
       ELSE IF B = {"main"} THEN <<"main">>
       ELSE IF B = {"v1"} THEN <<"v1">>
       ELSE <<"main", "v1">>

----------------------------------------------------------------------------
(* git.go: trees, blobs, submodules.  A request path is a token sequence   *)
(* in which "/" is a token of its own.  Functions that can fail return a   *)
(* record with field ok.                                                   *)

\* strings.Trim(path, "/")
RECURSIVE TrimSlashLeft(_)
TrimSlashLeft(s) == IF Len(s) > 0 /\ s[1] = "/" THEN TrimSlashLeft(Tail(s)) ELSE s

RECURSIVE TrimSlashRight(_)
TrimSlashRight(s) ==
    IF Len(s) > 0 /\ s[Len(s)] = "/" THEN TrimSlashRight(SubSeq(s, 1, Len(s)-1)) ELSE s

TrimSlashes(s) == TrimSlashRight(TrimSlashLeft(s))

\* strings.Split(path, "/"): the fields between slashes ("" for an empty one)
RECURSIVE SplitPath(_)
SplitPath(s) ==
    IF Len(s) = 0 THEN <<"">>
    ELSE IF s[1] = "/" THEN <<"">> \o SplitPath(Tail(s))
    ELSE IF Len(s) = 1 THEN <<s[1]>>
    ELSE IF s[2] = "/" THEN <<s[1]>> \o SplitPath(SubSeq(s, 3, Len(s)))
    ELSE <<s[1]>>

\* tree.FindEntry(path) on the root tree of commit c: the entry at the path
FindEntry(c, path) ==
    LET parts == SplitPath(path)
        E == {e \in Snapshot(c) : e.path = parts}
    IN IF E = {} THEN [ok |-> FALSE] ELSE [ok |-> TRUE, entry |-> CHOOSE e \in E : TRUE]

\* the entries of the tree object at path parts of commit c (tree.Entries)
Children(c, parts) ==
    {e \in Snapshot(c) : Len(e.path) = Len(parts) + 1
                         /\ SubSeq(e.path, 1, Len(parts)) = parts}

\* filemode.FileMode.String()
ModeString(kind) ==
    CASE kind = "dir" -> "0040000" [] kind = "submodule" -> "0160000"
      [] kind = "symlink" -> "0120000" [] OTHER -> "0100644"

\* the size of a blob, by content id (all model blobs have two bytes)
BlobSize(content) == 2

\* the TreeEntry GetTree builds for one entry of tree.Entries
MakeTreeEntry(e) ==
    [Name |-> e.path[Len(e.path)],
     IsDir |-> e.kind = "dir",
     IsSubmodule |-> e.kind = "submodule",
     Mode |-> ModeString(e.kind),
     Size |-> IF e.kind \in {"file", "symlink"} THEN BlobSize(e.content) ELSE 0,
     Hash |-> e.hash]

\* TreeLess without the submodule tier (mutant)
TreeLess_noSubmoduleTier(x, y) ==
    IF x.IsDir # y.IsDir THEN x.IsDir
    ELSE NameRank(x.Name) < NameRank(y.Name)

\* the comparison GetTree hands to sort.Slice
TreeLess(x, y) ==
    IF x.IsDir # y.IsDir THEN x.IsDir
    ELSE IF x.IsSubmodule # y.IsSubmodule THEN x.IsSubmodule
    ELSE NameRank(x.Name) < NameRank(y.Name)

\* sort.Slice(entries, TreeLess)
RECURSIVE SortEntries(_)
SortEntries(S) ==
    IF S = {} THEN <<>>
    ELSE LET m == CHOOSE x \in S : \A y \in S \ {x} : ~TreeLess(y, x)
         IN <<m>> \o SortEntries(S \ {m})

\* every order sort.Slice may leave the entries in: sort.Slice is not stable
\* and promises only that no element is less than one placed before it
sortSlice(S) ==
    LET n == Cardinality(S)
    IN {p \in [1..n -> S] :
           /\ \A i, j \in 1..n : i # j => p[i] # p[j]
           /\ \A i, j \in 1..n : i < j => ~TreeLess(p[j], p[i])}

\* GetTree after the reference is resolved to commit c
GetTreeAt(c, path) ==
    IF path # <<>> /\ path # <<"/">>
    THEN LET f == FindEntry(c, TrimSlashes(path))
         IN IF f.ok /\ f.entry.kind = "dir"
            THEN [ok |-> TRUE,
                  entries |-> SortEntries({MakeTreeEntry(e) : e \in Children(c, f.entry.path)})]
            ELSE [ok |-> FALSE, entries |-> <<>>]
    ELSE [ok |-> TRUE, entries |-> SortEntries({MakeTreeEntry(e) : e \in Children(c, <<>>)})]

GetTree(r, ref, path) ==
    LET h == resolveRef(r, ref)
    IN IF ~h.ok \/ ~CommitObject(r, h.hash) THEN [ok |-> FALSE, entries |-> <<>>]
       ELSE GetTreeAt(h.hash, path)

\* GetBlob that reads regular files only (mutant)
GetBlobAt_regularOnly(c, path) ==
    LET f == FindEntry(c, TrimSlashes(path))
    IN IF f.ok /\ f.entry.kind = "file"
       THEN [ok |-> TRUE, content |-> f.entry.content]
       ELSE [ok |-> FALSE, content |-> ""]

\* GetBlob after the reference is resolved to commit c: tree.File finds the
\* entry and reads the blob it names, whatever the mode of the entry
GetBlobAt(c, path) ==
    LET f == FindEntry(c, TrimSlashes(path))
    IN IF f.ok /\ f.entry.kind \in {"file", "symlink"}
       THEN [ok |-> TRUE, content |-> f.entry.content]
       ELSE [ok |-> FALSE, content |-> ""]

GetBlob(r, ref, path) ==
    LET h == resolveRef(r, ref)
    IN IF ~h.ok \/ ~CommitObject(r, h.hash) THEN [ok |-> FALSE, content |-> ""]
       ELSE GetBlobAt(h.hash, path)

\* ParseGitmodules: the modules of .gitmodules keyed by path; ok is FALSE
\* when the file is missing or does not parse
ParseGitmodules(r, ref) ==
    LET b == GetBlob(r, ref, <<".gitmodules">>)
    IN IF ~b.ok THEN [ok |-> FALSE, mods |-> {}] ELSE Unmarshal(b.content)

\* filepath.Join(strings.Trim(path, "/"), name), as path fields
JoinPath(path, name) ==
    IF path # <<>> /\ path # <<"/">>
    THEN SplitPath(TrimSlashes(path)) \o <<name>>
    ELSE <<name>>

\* the same path as a slash-separated token sequence
JoinPathTokens(path, name) ==
    IF path # <<>> /\ path # <<"/">>
    THEN TrimSlashes(path) \o <<"/", name>>
    ELSE <<name>>

\* the record GetSubmodulesForPath builds for one submodule entry (WebURL,
\* a function of URL and Hash, is left out)
MakeSubmoduleInfo(entry, fullPath, gitmodules) ==
    LET M == {m \in gitmodules.mods : m.Path = fullPath}
    IN IF gitmodules.ok /\ M # {}
       THEN LET sub == CHOOSE m \in M : TRUE
            IN [Path |-> fullPath, Name |-> sub.Name, Hash |-> entry.Hash,
                URL |-> sub.URL, Branch |-> sub.Branch, Status |-> "configured"]
       ELSE [Path |-> fullPath, Name |-> entry.Name, Hash |-> entry.Hash,
             URL |-> <<>>, Branch |-> "", Status |-> "missing-config"]

\* the loop of GetSubmodulesForPath over the listing: the records, as a set
\* (the map is keyed by entry name, which is unique in a listing)
BuildSubmodules(entries, gitmodules, path) ==
    {MakeSubmoduleInfo(entries[i], JoinPath(path, entries[i].Name), gitmodules) :
        i \in {j \in 1..Len(entries) : entries[j].IsSubmodule}}

GetSubmodulesForPath(r, ref, path) ==
    LET t == GetTree(r, ref, path)
    IN IF ~t.ok THEN {} ELSE BuildSubmodules(t.entries, ParseGitmodules(r, ref), path)

\* findReadme: the first of the known README names that is a non-directory
\* entry of the listing ("" when none); README.md is the only one that
\* occurs in the store
findReadme(entries) ==
    IF \E i \in 1..Len(entries) : ~entries[i].IsDir /\ entries[i].Name = "README.md"
    THEN "README.md"
    ELSE ""

----------------------------------------------------------------------------
(* SpecGit: one repository that receives pushes while resolveRef is called *)
(* and while a tree request that passed the access gate is handled.  Each  *)
(* call of handleTree into git.go opens the repository and resolves the    *)
(* reference anew, so each is a step of its own.                           *)

RefStrings == {"main", "v1", "", "HEAD", "c1", "c2", "nope"}

TreeRefs == {"main", "v1", "HEAD"}

TreePaths == {<<>>, <<"a", "/">>, <<"nope">>}

IdleTree == [pc |-> "idle"]

InitGit ==
    /\ refs = [branches |-> [b \in BranchNames |-> IF b = "main" THEN "c1" ELSE NoRef],
               tags |-> [t \in TagNames |-> NoRef],
               objects |-> CommitIds]
    /\ res = <<>>
    /\ tree = IdleTree
    /\ lit = <<>> /\ verdict = <<>> /\ hdrs = <<>> /\ clientIP = <<>>
    /\ repos = <<>> /\ admin = <<>> /\ last = <<>>
    /\ input = <<>> /\ output = <<>>

\* git push: a branch is created or moved
PushBranch(b, c) ==
    /\ refs.branches[b] # c
    /\ refs' = [refs EXCEPT !.branches[b] = c]
    /\ res' = <<>>
    /\ UNCHANGED <<tree, ipVars, srvVars, fnVars>>

\* git push --delete: a branch is removed
DeleteBranch(b) ==
    /\ refs.branches[b] # NoRef
    /\ refs' = [refs EXCEPT !.branches[b] = NoRef]
    /\ res' = <<>>
    /\ UNCHANGED <<tree, ipVars, srvVars, fnVars>>

\* git push of a tag: a tag is created, moved or removed
PushTag(t, c) ==
    /\ refs.tags[t] # c
    /\ refs' = [refs EXCEPT !.tags[t] = c]
    /\ res' = <<>>
    /\ UNCHANGED <<tree, ipVars, srvVars, fnVars>>

\* a call resolveRef(r, ref)
ResolveRef(ref) ==
    /\ tree.pc = "idle"
    /\ res' = <<[ref |-> ref, out |-> resolveRef(refs, ref)]>>
    /\ UNCHANGED <<refs, tree, ipVars, srvVars, fnVars>>

\* handleTree: entries, err := GetTree(...); an error ends the request
handleTree_GetTree(ref, path) ==
    /\ tree.pc = "idle"
    /\ LET t == GetTree(refs, ref, path)
       IN tree' = IF t.ok
                  THEN [pc |-> "submodules", ref |-> ref, path |-> path,
                        entries |-> t.entries]
                  ELSE [pc |-> "done", ref |-> ref, path |-> path, status |-> 500]
    /\ res' = <<>>
    /\ UNCHANGED <<refs, ipVars, srvVars, fnVars>>

\* handleTree: submodules, _ := GetSubmodulesForPath(...), its GetTree call
handleTree_SubmodulesTree ==
    /\ tree.pc = "submodules"
    /\ LET t == GetTree(refs, tree.ref, tree.path)
       IN tree' = IF t.ok
                  THEN [pc |-> "gitmodules", ref |-> tree.ref, path |-> tree.path,
                        entries |-> tree.entries, subEntries |-> t.entries]
                  ELSE [pc |-> "readme", ref |-> tree.ref, path |-> tree.path,
                        entries |-> tree.entries, submodules |-> {}]
    /\ UNCHANGED <<refs, res, ipVars, srvVars, fnVars>>

\* handleTree: GetSubmodulesForPath, its ParseGitmodules call and its loop
handleTree_Gitmodules ==
    /\ tree.pc = "gitmodules"
    /\ tree' = [pc |-> "readme", ref |-> tree.ref, path |-> tree.path,
                entries |-> tree.entries,
                submodules |-> BuildSubmodules(tree.subEntries,
                                               ParseGitmodules(refs, tree.ref), tree.path)]
    /\ UNCHANGED <<refs, res, ipVars, srvVars, fnVars>>

\* handleTree: GetBranches, findReadme and GetBlob of the README, then the page
handleTree_Readme ==
    /\ tree.pc = "readme"
    /\ LET readme == findReadme(tree.entries)
           readmePath == JoinPathTokens(tree.path, readme)
           b == IF readme # "" THEN GetBlob(refs, tree.ref, readmePath)
                ELSE [ok |-> FALSE, content |-> ""]
       IN tree' = [pc |-> "done", ref |-> tree.ref, path |-> tree.path, status |-> 200,
                   entries |-> tree.entries, submodules |-> tree.submodules,
                   branches |-> GetBranches(refs),
                   readmeName |-> readme,
                   readme |-> IF b.ok THEN b.content ELSE ""]
    /\ UNCHANGED <<refs, res, ipVars, srvVars, fnVars>>

\* the response is written; the next request may start
handleTree_Return ==
    /\ tree.pc = "done"
    /\ tree' = IdleTree
    /\ UNCHANGED <<refs, res, ipVars, srvVars, fnVars>>

NextGit ==
    \/ \E b \in BranchNames, c \in CommitIds : PushBranch(b, c)
    \/ \E b \in BranchNames : DeleteBranch(b)
    \/ \E t \in TagNames, c \in CommitIds \cup TagObjectIds \cup {NoRef} : PushTag(t, c)
    \/ \E ref \in RefStrings : ResolveRef(ref)
    \/ \E ref \in TreeRefs, path \in TreePaths : handleTree_GetTree(ref, path)
    \/ handleTree_SubmodulesTree
    \/ handleTree_Gitmodules
    \/ handleTree_Readme
    \/ handleTree_Return

SpecGit == InitGit /\ [][NextGit]_vars

----------------------------------------------------------------------------
(* git.go: commits and single submodules.                                  *)

\* commit.Parent(0): the first parent, ZeroHash for a root commit
Parent(c) == CASE c = "c2" -> "c1" [] c = "c3" -> "c2" [] OTHER -> ZeroHash

\* r.Log(From: c): the history of c, newest first
RECURSIVE History(_)
History(c) == IF c \notin CommitIds THEN <<>> ELSE <<c>> \o History(Parent(c))

\* GetCommits: at most limit commits of the history of the resolved reference
GetCommits(r, ref, limit) ==
    LET h == resolveRef(r, ref)
    IN IF ~h.ok \/ ~CommitObject(r, h.hash) THEN [ok |-> FALSE, commits |-> <<>>]
       ELSE [ok |-> TRUE,
             commits |-> IF limit > 0 /\ Len(History(h.hash)) > limit
                         THEN SubSeq(History(h.hash), 1, limit)
                         ELSE History(h.hash)]

\* GetCommitDiff: fails iff the id names no commit; the record holds the
\* commit and its parent (the file diffs are not part of this record)
GetCommitDiff(r, hash) ==
    IF ~CommitObject(r, NewHash(hash)) THEN [ok |-> FALSE]
    ELSE [ok |-> TRUE, Commit |-> NewHash(hash),
          ParentHash |-> IF Parent(NewHash(hash)) = ZeroHash THEN ""
                         ELSE Parent(NewHash(hash))]

\* an object id as the two pieces the code takes of it: the first eight
\* characters and the rest
HashOf(id) == <<id, "rest">>

\* Hash.String()[:8]
ShortHash(h) == SubSeq(h, 1, 1)

\* strings.TrimSuffix(s, t) and strings.TrimPrefix(s, t) for a one-token t
TrimSuffix(s, t) == IF HasSuffix(s, t) THEN SubSeq(s, 1, Len(s) - 1) ELSE s
TrimPrefix(s, t) == IF HasPrefix(s, t) THEN Tail(s) ELSE s

\* 1-based position of the first t in s, 0 when absent
Index(s, t) ==
    IF Contains(s, t)
    THEN CHOOSE i \in 1..Len(s) : s[i] = t /\ \A j \in 1..(i-1) : s[j] # t
    ELSE 0

\* sshRegex.FindStringSubmatch for ^git@([^:]+):(.+?)(?:\.git)?$ : the host
\* runs to the first colon, the path is the shortest non-empty text that
\* leaves nothing or just .git before the end
sshRegex(u) ==
    LET c == Index(u, ":")
        rest == SubSeq(u, c + 1, Len(u))
    IN IF HasPrefix(u, "git@") /\ c > 2 /\ c < Len(u)
       THEN [ok |-> TRUE, host |-> SubSeq(u, 2, c - 1),
             path |-> IF Len(rest) > 1 THEN TrimSuffix(rest, ".git") ELSE rest]
       ELSE [ok |-> FALSE, host |-> <<>>, path |-> <<>>]

Schemes == {"https://", "http://"}

\* url.Parse: a text with a scheme has the host up to the first slash and
\* the path from that slash on; a text without scheme has no host, and is
\* refused when a colon stands before its first slash
urlParse(u) ==
    IF Len(u) >= 1 /\ u[1] \in Schemes
    THEN LET rest == Tail(u)
             i == Index(rest, "/")
         IN IF i = 0 THEN [ok |-> TRUE, Host |-> rest, Path |-> <<>>]
            ELSE [ok |-> TRUE, Host |-> SubSeq(rest, 1, i - 1),
                  Path |-> SubSeq(rest, i, Len(rest))]
    ELSE IF Contains(u, ":") /\ (Index(u, "/") = 0 \/ Index(u, ":") < Index(u, "/"))
    THEN [ok |-> FALSE, Host |-> <<>>, Path |-> <<>>]
    ELSE [ok |-> TRUE, Host |-> <<>>, Path |-> u]

\* the text after the last slash: parts[len(parts)-1] of strings.Split(path, "/")
LastPart(path) == SubSeq(path, LastIndex(path, "/") + 1, Len(path))

\* formatWebURL: the host is looked up by the names it contains
formatWebURL(host, path, hash) ==
    IF Contains(host, "github.com")
    THEN <<"https://", "github.com", "/">> \o path \o <<"/", "tree", "/">> \o hash
    ELSE IF Contains(host, "gitlab.com")
    THEN <<"https://", "gitlab.com", "/">> \o path \o <<"/", "-", "/", "tree", "/">> \o hash
    ELSE IF Contains(host, "bitbucket.org")
    THEN <<"https://", "bitbucket.org", "/">> \o path \o <<"/", "src", "/">> \o hash
    ELSE IF Contains(host, "git.rafayel.dev")
    THEN <<"/">> \o TrimSuffix(LastPart(path), ".git") \o <<"/", "tree", "/">> \o hash \o <<"/">>
    ELSE <<"https://">> \o host \o <<"/">> \o path

\* ConvertToWebURL that keeps the suffix of a URL with a scheme (mutant)
ConvertToWebURL_keepsSuffix(gitURL, hash) ==
    LET m == sshRegex(gitURL)
        parsed == urlParse(gitURL)
    IN IF m.ok THEN formatWebURL(m.host, TrimSuffix(m.path, ".git"), hash)
       ELSE IF parsed.ok /\ parsed.Host # <<>>
       THEN formatWebURL(parsed.Host, TrimPrefix(parsed.Path, "/"), hash)
       ELSE gitURL

ConvertToWebURL(gitURL, hash) ==
    LET m == sshRegex(gitURL)
        parsed == urlParse(gitURL)
    IN IF m.ok THEN formatWebURL(m.host, TrimSuffix(m.path, ".git"), hash)
       ELSE IF parsed.ok /\ parsed.Host # <<>>
       THEN formatWebURL(parsed.Host,
                         TrimPrefix(TrimSuffix(parsed.Path, ".git"), "/"), hash)
       ELSE gitURL

\* GetSubmoduleInfo with the configured status decided by the file alone,
\* whether or not it names the path (mutant)
GetSubmoduleInfo_anyEntry(r, ref, submodulePath) ==
    LET h == resolveRef(r, ref)
    IN IF ~h.ok \/ ~CommitObject(r, h.hash) THEN [ok |-> FALSE]
       ELSE LET f == FindEntry(h.hash, TrimSlashes(submodulePath))
            IN IF ~f.ok THEN [ok |-> FALSE]
               ELSE IF f.entry.kind # "submodule" THEN [ok |-> FALSE]
               ELSE LET gm == ParseGitmodules(r, ref)
                        M == {m \in gm.mods : m.Path = f.entry.path}
                        base == [Path |-> f.entry.path,
                                 Name |-> f.entry.path[Len(f.entry.path)],
                                 Hash |-> HashOf(f.entry.hash),
                                 ShortHash |-> ShortHash(HashOf(f.entry.hash)),
                                 Status |-> "configured",
                                 URL |-> <<>>, Branch |-> "", WebURL |-> <<>>]
                    IN [ok |-> TRUE,
                        info |-> IF gm.ok /\ M # {}
                                 THEN LET sub == CHOOSE m \in M : TRUE
                                      IN [base EXCEPT !.Name = sub.Name,
                                                      !.URL = sub.URL,
                                                      !.Branch = sub.Branch,
                                                      !.WebURL = ConvertToWebURL(sub.URL, base.Hash)]
                                 ELSE IF gm.ok THEN base
                                 ELSE [base EXCEPT !.Status = "missing-config"]]

\* GetSubmoduleInfo when ParseGitmodules returns gm
GetSubmoduleInfoWith(r, ref, submodulePath, gm) ==
    LET h == resolveRef(r, ref)
    IN IF ~h.ok \/ ~CommitObject(r, h.hash) THEN [ok |-> FALSE]
       ELSE LET f == FindEntry(h.hash, TrimSlashes(submodulePath))
            IN IF ~f.ok THEN [ok |-> FALSE]
               ELSE IF f.entry.kind # "submodule" THEN [ok |-> FALSE]
               ELSE LET M == {m \in gm.mods : m.Path = f.entry.path}
                        base == [Path |-> f.entry.path,
                                 Name |-> f.entry.path[Len(f.entry.path)],
                                 Hash |-> HashOf(f.entry.hash),
                                 ShortHash |-> ShortHash(HashOf(f.entry.hash)),
                                 Status |-> "configured",
                                 URL |-> <<>>, Branch |-> "", WebURL |-> <<>>]
                    IN [ok |-> TRUE,
                        info |-> IF gm.ok /\ M # {}
                                 THEN LET sub == CHOOSE m \in M : TRUE
                                      IN [base EXCEPT !.Name = sub.Name,
                                                      !.URL = sub.URL,
                                                      !.Branch = sub.Branch,
                                                      !.WebURL = ConvertToWebURL(sub.URL, base.Hash)]
                                 ELSE [base EXCEPT !.Status = "missing-config"]]

GetSubmoduleInfo(r, ref, submodulePath) ==
    GetSubmoduleInfoWith(r, ref, submodulePath, ParseGitmodules(r, ref))

\* the repository has no branch at all
NoBranches(r) == \A b \in DOMAIN r.branches : r.branches[b] = NoRef

\* IsEmptyRepo: HEAD does not resolve and no branch exists
IsEmptyRepo(r) == IF RepoHead(r) # NoRef THEN FALSE ELSE NoBranches(r)

\* GetDefaultBranch: the short name of HEAD's target, an error when HEAD
\* does not resolve
GetDefaultBranch(r) ==
    IF RepoHead(r) = NoRef THEN [ok |-> FALSE, name |-> ""]
    ELSE [ok |-> TRUE, name |-> HeadBranch]

----------------------------------------------------------------------------
(* The server (handlers.go, lfs.go).  The repositories directory maps a    *)
(* repository name to its files: exists (the directory <name>.git),       *)
(* public (the marker file git-daemon-export-ok), description, pages       *)
(* (git-pages.json), mirror (git-mirror.json) and git (its references).    *)
(* A file is the one-element tuple of its content, a file that does not   *)
(* exist the empty tuple.                                                  *)

RepoNames == {"alpha", "beta"}

NoFile == <<>>

FileOf(content) == <<content>>

NoRepo == [exists |-> FALSE, public |-> FALSE, description |-> NoFile,
           pages |-> NoFile, mirror |-> NoFile,
           git |-> [branches |-> [b \in BranchNames |-> NoRef],
                    tags |-> [t \in TagNames |-> NoRef],
                    objects |-> {}]]

\* git.PlainInit(repoPath, true): an empty bare repository
EmptyRepo == [NoRepo EXCEPT !.exists = TRUE]

\* a repository with history, as pushed over ssh
PushedRepo(public) ==
    [EmptyRepo EXCEPT !.public = public,
                      !.git = [branches |-> [b \in BranchNames |->
                                                IF b = "main" THEN "c2" ELSE NoRef],
                               tags |-> [t \in TagNames |-> "c1"],
                               objects |-> CommitIds]]

\* RepoExists(reposPath, repoName)
RepoExists(repoName) == repoName \in DOMAIN repos /\ repos[repoName].exists

\* IsPublicRepo that finds the marker in every repository
IsPublicRepo_always(repoName) == TRUE

\* IsPublicRepo(repoPath)
IsPublicRepo(repoName) == repoName \in DOMAIN repos /\ repos[repoName].public

\* git.PlainOpen(repoPath)
PlainOpen(repoName) == repos[repoName].git

\* commit.Author.When of HEAD's commit, 0 when HEAD does not resolve
LastCommit(repoName) ==
    LET h == RepoHead(PlainOpen(repoName))
    IN IF h = "c1" THEN 1 ELSE IF h = "c2" THEN 2 ELSE IF h = "c3" THEN 3 ELSE 0

\* ListRepos that skips no private repository
ListedRepos_showAll(showPrivate) ==
    {[Name |-> n, IsPublic |-> IsPublicRepo(n), LastCommit |-> LastCommit(n)] :
        n \in {m \in DOMAIN repos : RepoExists(m)}}

\* the Repo records ListRepos collects, before sorting
ListedRepos(showPrivate) ==
    {[Name |-> n, IsPublic |-> IsPublicRepo(n), LastCommit |-> LastCommit(n)] :
        n \in {m \in DOMAIN repos : RepoExists(m) /\ (showPrivate \/ IsPublicRepo(m))}}

\* sort.Slice by LastCommit, most recent first (the repositories of the
\* model have distinct commit times, so the order is determined)
RECURSIVE SortRepos(_)
SortRepos(S) ==
    IF S = {} THEN <<>>
    ELSE LET m == CHOOSE x \in S : \A y \in S \ {x} : ~(y.LastCommit > x.LastCommit)
         IN <<m>> \o SortRepos(S \ {m})

\* ListRepos(reposPath, showPrivate)

ListRepos(showPrivate) == SortRepos(ListedRepos(showPrivate))

(* The callers.  trusted is what the address the caller is identified by   *)
(* is: an address of 100.64.0.0/10 or not.                                 *)
(* peer is the address the connection comes from; remoteAddr is           *)
(* http.Request.RemoteAddr, the same until the middleware rewrites it.     *)

NoHeader == <<>>

Callers ==
    { [remoteAddr |-> <<"8", ".", "8", ".", "8", ".", "8", ":", "80">>,
       peer |-> <<"8", ".", "8", ".", "8", ".", "8", ":", "80">>,
       trueClientIP |-> NoHeader,
       xff |-> <<"8", ".", "8", ".", "8", ".", "8", ",", " ", "1", ".", "1", ".", "1", ".", "1">>,
       xRealIP |-> <<"100", ".", "100", ".", "1", ".", "1">>,
       trusted |-> TRUE],
      [remoteAddr |-> <<"8", ".", "8", ".", "8", ".", "8", ":", "80">>,
       peer |-> <<"8", ".", "8", ".", "8", ".", "8", ":", "80">>,
       trueClientIP |-> NoHeader, xff |-> NoHeader, xRealIP |-> NoHeader,
       trusted |-> FALSE],
      [remoteAddr |-> <<"8", ".", "8", ".", "8", ".", "8", ":", "80">>,
       peer |-> <<"8", ".", "8", ".", "8", ".", "8", ":", "80">>,
       trueClientIP |-> <<"100", ".", "64", ".", "0", ".", "1">>,
       xff |-> NoHeader, xRealIP |-> NoHeader,
       trusted |-> TRUE] }

\* middleware.RealIP of chi, which main installs in front of every route:
\* the first of True-Client-IP, X-Real-IP and the part of X-Forwarded-For
\* before its first comma that is set replaces RemoteAddr when it parses as
\* an address; the headers stay as they are
RealIP(c) ==
    LET ip == IF c.trueClientIP # NoHeader THEN c.trueClientIP
              ELSE IF c.xRealIP # NoHeader THEN c.xRealIP
              ELSE IF c.xff # NoHeader THEN FirstCommaField(c.xff)
              ELSE <<>>
    IN IF ip = <<>> \/ ParseIP(ip) = NoIP THEN c ELSE [c EXCEPT !.remoteAddr = ip]

\* the requests as the handlers receive them
Requesters == {RealIP(c) : c \in Callers}

\* what Server.isTailnetRequest computes from the three values it reads
\* from a request, tabulated over the requesters
TailnetRequesters ==
    [r \in Requesters |-> IsTailnetIP(GetClientIP(r.remoteAddr, r.xff, r.xRealIP))]

\* isTailnetRequest that lets every request through
isTailnetRequest_always(r) == TRUE

\* Server.isTailnetRequest
isTailnetRequest(r) == TailnetRequesters[r]

Response(handler, req, status, page) ==
    [handler |-> handler, req |-> req, status |-> status, page |-> page]

NoPage == <<>>

\* handleIndex
handleIndex(r) ==
    /\ last' = Response("handleIndex", r, 200, ListRepos(isTailnetRequest(r.caller)))
    /\ UNCHANGED <<repos, admin, ipVars, gitVars, fnVars>>

\* handleRepo
handleRepo(r) ==
    /\ last' =
         IF ~RepoExists(r.repo) THEN Response("handleRepo", r, 404, NoPage)
         ELSE IF ~IsPublicRepo(r.repo) /\ ~isTailnetRequest(r.caller)
         THEN Response("handleRepo", r, 403, NoPage)
         ELSE IF IsEmptyRepo(PlainOpen(r.repo))
         THEN Response("handleRepo", r, 200, <<"empty">>)
         ELSE LET d == GetDefaultBranch(PlainOpen(r.repo))
              IN Response("handleRepo", r, 302,
                          <<"tree", IF d.ok THEN d.name ELSE "main">>)
    /\ UNCHANGED <<repos, admin, ipVars, gitVars, fnVars>>

\* handleTree
handleTree(r) ==
    /\ last' =
         IF ~RepoExists(r.repo) THEN Response("handleTree", r, 404, NoPage)
         ELSE IF ~IsPublicRepo(r.repo) /\ ~isTailnetRequest(r.caller)
         THEN Response("handleTree", r, 403, NoPage)
         ELSE LET g == PlainOpen(r.repo)
                  t == GetTree(g, r.ref, r.path)
                  readme == findReadme(t.entries)
                  b == IF readme # ""
                       THEN GetBlob(g, r.ref, JoinPathTokens(r.path, readme))
                       ELSE [ok |-> FALSE, content |-> ""]
              IN IF ~t.ok THEN Response("handleTree", r, 500, NoPage)
                 ELSE Response("handleTree", r, 200,
                               <<t.entries, GetSubmodulesForPath(g, r.ref, r.path),
                                 IF b.ok THEN b.content ELSE "">>)
    /\ UNCHANGED <<repos, admin, ipVars, gitVars, fnVars>>

\* handleSubmodule
handleSubmodule(r) ==
    /\ last' =
         IF ~RepoExists(r.repo) THEN Response("handleSubmodule", r, 404, NoPage)
         ELSE IF ~IsPublicRepo(r.repo) /\ ~isTailnetRequest(r.caller)
         THEN Response("handleSubmodule", r, 403, NoPage)
         ELSE LET i == GetSubmoduleInfo(PlainOpen(r.repo), r.ref, r.path)
              IN IF ~i.ok THEN Response("handleSubmodule", r, 404, NoPage)
                 ELSE Response("handleSubmodule", r, 200, <<i.info>>)
    /\ UNCHANGED <<repos, admin, ipVars, gitVars, fnVars>>

\* handleBlob
handleBlob(r) ==
    /\ last' =
         IF ~RepoExists(r.repo) THEN Response("handleBlob", r, 404, NoPage)
         ELSE IF ~IsPublicRepo(r.repo) /\ ~isTailnetRequest(r.caller)
         THEN Response("handleBlob", r, 403, NoPage)
         ELSE LET b == GetBlob(PlainOpen(r.repo), r.ref, r.path)
              IN IF ~b.ok THEN Response("handleBlob", r, 404, NoPage)
                 ELSE Response("handleBlob", r, 200, <<b.content>>)
    /\ UNCHANGED <<repos, admin, ipVars, gitVars, fnVars>>

\* the number of commits handleCommits asks for
CommitsLimit == 50

\* handleCommits
handleCommits(r) ==
    /\ last' =
         IF ~RepoExists(r.repo) THEN Response("handleCommits", r, 404, NoPage)
         ELSE IF ~IsPublicRepo(r.repo) /\ ~isTailnetRequest(r.caller)
         THEN Response("handleCommits", r, 403, NoPage)
         ELSE LET c == GetCommits(PlainOpen(r.repo), r.ref, CommitsLimit)
              IN IF ~c.ok THEN Response("handleCommits", r, 500, NoPage)
                 ELSE Response("handleCommits", r, 200, c.commits)
    /\ UNCHANGED <<repos, admin, ipVars, gitVars, fnVars>>

\* handleCommit
handleCommit(r) ==
    /\ last' =
         IF ~RepoExists(r.repo) THEN Response("handleCommit", r, 404, NoPage)
         ELSE IF ~IsPublicRepo(r.repo) /\ ~isTailnetRequest(r.caller)
         THEN Response("handleCommit", r, 403, NoPage)
         ELSE LET d == GetCommitDiff(PlainOpen(r.repo), r.hash)
              IN IF ~d.ok THEN Response("handleCommit", r, 404, NoPage)
                 ELSE Response("handleCommit", r, 200, <<d>>)
    /\ UNCHANGED <<repos, admin, ipVars, gitVars, fnVars>>

(* The administrative handlers.  A form value is a token sequence where   *)
(* the code trims it and a string where it only compares it.               *)

\* handleNewRepo
handleNewRepo(r) ==
    /\ last' = IF ~isTailnetRequest(r.caller)
               THEN Response("handleNewRepo", r, 403, NoPage)
               ELSE Response("handleNewRepo", r, 200, NoPage)
    /\ UNCHANGED <<repos, admin, ipVars, gitVars, fnVars>>

\* the runs of characters a repository name may be made of; any other
\* token of a name (" ", "/") is a character the name check rejects
NameChunks == {"alpha", "beta"}

\* the loop of handleNewRepoPost over the characters of the name
ValidRepoName(name) == \A i \in 1..Len(name) : name[i] \in NameChunks

\* handleNewRepoPost; f is the form, initOK whether git.PlainInit succeeds
handleNewRepoPost(r, initOK) ==
    LET f == r.form
        repoName == TrimSpace(f.name)
        description == TrimSpace(f.description)
        isPublic == f.visibility = "public"
        deny(status) == /\ last' = Response("handleNewRepoPost", r, status, NoPage)
                        /\ UNCHANGED <<repos, admin, ipVars, gitVars, fnVars>>
    IN IF ~isTailnetRequest(r.caller) THEN deny(403)
       ELSE IF ~f.formOK THEN deny(400)
       ELSE IF repoName = <<>> THEN deny(400)
       ELSE IF ~ValidRepoName(repoName) THEN deny(400)
       ELSE IF RepoExists(repoName[1]) THEN deny(409)
       ELSE IF ~initOK THEN deny(500)
       ELSE /\ repos' = [repos EXCEPT ![repoName[1]] =
                            [EmptyRepo EXCEPT
                                !.description = IF description # <<>>
                                                THEN FileOf(description)
                                                ELSE NoFile,
                                !.public = isPublic]]
            /\ last' = Response("handleNewRepoPost", r, 302, <<repoName[1]>>)
            /\ UNCHANGED <<admin, ipVars, gitVars, fnVars>>

\* handleRepoSettings
handleRepoSettings(r) ==
    /\ last' =
         IF ~isTailnetRequest(r.caller) THEN Response("handleRepoSettings", r, 403, NoPage)
         ELSE IF ~RepoExists(r.repo) THEN Response("handleRepoSettings", r, 404, NoPage)
         ELSE Response("handleRepoSettings", r, 200,
                       <<repos[r.repo].description, IsPublicRepo(r.repo),
                         repos[r.repo].pages, repos[r.repo].mirror,
                         admin.sshKey, admin.lfsConfig, admin.backupConfig>>)
    /\ UNCHANGED <<repos, admin, ipVars, gitVars, fnVars>>

\* handleRepoSettingsPost
handleRepoSettingsPost(r) ==
    LET f == r.form
        deny(status) == /\ last' = Response("handleRepoSettingsPost", r, status, NoPage)
                        /\ UNCHANGED <<repos, admin, ipVars, gitVars, fnVars>>
        mirrorEnabled == f.mirror_enabled = "on"
        mirrorURL == TrimSpace(f.mirror_url)
    IN IF ~isTailnetRequest(r.caller) THEN deny(403)
       ELSE IF ~RepoExists(r.repo) THEN deny(404)
       ELSE IF ~f.formOK THEN deny(400)
       ELSE /\ repos' = [repos EXCEPT ![r.repo] =
                [@ EXCEPT
                   !.description = FileOf(TrimSpace(f.description)),
                   !.public = (f.visibility = "public"),
                   !.pages = FileOf(
                       [enabled |-> f.pages_enabled = "on",
                        branch |-> IF f.pages_branch = "" THEN "main"
                                   ELSE f.pages_branch,
                        build_command |-> f.pages_build_cmd,
                        output_dir |-> IF f.pages_output_dir = "" THEN "public"
                                       ELSE f.pages_output_dir]),
                   !.mirror = IF mirrorEnabled /\ mirrorURL # <<>>
                              THEN FileOf([enabled |-> TRUE, github_url |-> mirrorURL])
                              ELSE IF ~mirrorEnabled
                              THEN FileOf([enabled |-> FALSE, github_url |-> mirrorURL])
                              ELSE @]]
            /\ last' = Response("handleRepoSettingsPost", r, 302, <<r.repo>>)
            /\ UNCHANGED <<admin, ipVars, gitVars, fnVars>>

\* handleGenerateSSHKey; keygenOK is whether ssh-keygen succeeds
handleGenerateSSHKey(r, keygenOK) ==
    LET deny(status) == /\ last' = Response("handleGenerateSSHKey", r, status, NoPage)
                        /\ UNCHANGED <<repos, admin, ipVars, gitVars, fnVars>>
    IN IF ~isTailnetRequest(r.caller) THEN deny(403)
       ELSE IF admin.sshKey THEN deny(409)
       ELSE IF ~keygenOK THEN deny(500)
       ELSE /\ admin' = [admin EXCEPT !.sshKey = TRUE]
            /\ last' = Response("handleGenerateSSHKey", r, 302, NoPage)
            /\ UNCHANGED <<repos, ipVars, gitVars, fnVars>>

\* handleUpdateServer; pullOK and buildOK are whether git pull and go build
\* succeed.  admin.source is the checkout, admin.binary the running build.
handleUpdateServer(r, pullOK, buildOK) ==
    IF ~isTailnetRequest(r.caller)
    THEN /\ last' = Response("handleUpdateServer", r, 403, NoPage)
         /\ UNCHANGED <<repos, admin, ipVars, gitVars, fnVars>>
    ELSE IF ~pullOK
    THEN /\ last' = Response("handleUpdateServer", r, 500, NoPage)
         /\ UNCHANGED <<repos, admin, ipVars, gitVars, fnVars>>
    ELSE IF ~buildOK
    THEN /\ last' = Response("handleUpdateServer", r, 500, NoPage)
         /\ admin' = [admin EXCEPT !.source = "pulled"]
         /\ UNCHANGED <<repos, ipVars, gitVars, fnVars>>
    ELSE /\ last' = Response("handleUpdateServer", r, 200, NoPage)
         /\ admin' = [admin EXCEPT !.source = "pulled", !.binary = "rebuilt"]
         /\ UNCHANGED <<repos, ipVars, gitVars, fnVars>>

\* handleLFSConfigPost; writeOK is whether os.WriteFile succeeds
handleLFSConfigPost(r, writeOK) ==
    LET f == r.form
        deny(status) == /\ last' = Response("handleLFSConfigPost", r, status, NoPage)
                        /\ UNCHANGED <<repos, admin, ipVars, gitVars, fnVars>>
    IN IF ~isTailnetRequest(r.caller) THEN deny(403)
       ELSE IF ~f.formOK THEN deny(400)
       ELSE IF f.lfs_enabled = "on"
       THEN IF ~writeOK THEN deny(500)
            ELSE /\ admin' = [admin EXCEPT !.lfsConfig =
                                 FileOf(
                                 [endpoint |-> TrimSpace(f.lfs_endpoint),
                                  bucket |-> TrimSpace(f.lfs_bucket),
                                  region |-> IF TrimSpace(f.lfs_region) = <<>>
                                             THEN <<"auto">>
                                             ELSE TrimSpace(f.lfs_region),
                                  access_key |-> TrimSpace(f.lfs_access_key),
                                  secret_key |-> TrimSpace(f.lfs_secret_key)])]
                 /\ last' = Response("handleLFSConfigPost", r, 302, NoPage)
                 /\ UNCHANGED <<repos, ipVars, gitVars, fnVars>>
       ELSE /\ admin' = [admin EXCEPT !.lfsConfig = NoFile]
            /\ last' = Response("handleLFSConfigPost", r, 302, NoPage)
            /\ UNCHANGED <<repos, ipVars, gitVars, fnVars>>

\* replaceConfigLine; the content of a shell configuration is the function
\* from the keys that have a KEY= line to the text after the "="
replaceConfigLine(content, key, newValue) ==
    IF key \in DOMAIN content THEN [content EXCEPT ![key] = newValue] ELSE content

\* fmt.Sprintf(`"%s"`, v)
Quoted(v) == <<"\"">> \o v \o <<"\"">>

\* handleBackupConfigPost; writeOK is whether os.WriteFile of the JSON file
\* succeeds.  admin.backupConf is the shell configuration backup.conf,
\* admin.awsCredentials the credentials file of the default profile.
handleBackupConfigPost(r, writeOK) ==
    LET f == r.form
        deny(status) == /\ last' = Response("handleBackupConfigPost", r, status, NoPage)
                        /\ UNCHANGED <<repos, admin, ipVars, gitVars, fnVars>>
        endpoint == TrimSpace(f.backup_endpoint)
        bucket == TrimSpace(f.backup_bucket)
        accessKey == TrimSpace(f.backup_access_key)
        secretKey == TrimSpace(f.backup_secret_key)
        conf0 == admin.backupConf[1]
        conf1 == IF endpoint # <<>>
                 THEN replaceConfigLine(conf0, "AWS_ENDPOINT_URL", Quoted(endpoint))
                 ELSE conf0
        conf2 == IF bucket # <<>>
                 THEN replaceConfigLine(conf1, "S3_BUCKET", Quoted(bucket))
                 ELSE conf1
    IN IF ~isTailnetRequest(r.caller) THEN deny(403)
       ELSE IF ~f.formOK THEN deny(400)
       ELSE IF ~writeOK THEN deny(500)
       ELSE /\ admin' = [admin EXCEPT
                !.backupConfig = FileOf(
                    [enabled |-> f.backup_enabled = "on",
                     endpoint |-> endpoint, bucket |-> bucket,
                     region |-> IF TrimSpace(f.backup_region) = <<>> THEN <<"auto">>
                                ELSE TrimSpace(f.backup_region),
                     access_key |-> accessKey, secret_key |-> secretKey,
                     schedule |-> IF f.backup_schedule = "" THEN "daily"
                                  ELSE f.backup_schedule]),
                !.backupConf = IF admin.backupConf # NoFile THEN FileOf(conf2) ELSE @,
                !.awsCredentials =
                    IF admin.backupConf # NoFile /\ accessKey # <<>> /\ secretKey # <<>>
                    THEN FileOf([aws_access_key_id |-> accessKey,
                                 aws_secret_access_key |-> secretKey])
                    ELSE @]
            /\ last' = Response("handleBackupConfigPost", r, 302, NoPage)
            /\ UNCHANGED <<repos, ipVars, gitVars, fnVars>>

(* lfs.go.  The body of a batch request is ok (it decodes) or not, and     *)
(* holds the operation string and the object ids, an id being the          *)
(* sequence of its characters.  env is what the object store does during   *)
(* the request: s3 (the client can be created), stored (HeadObject finds   *)
(* the object) and presign (the URL can be signed).                        *)

\* the S3 key {repo}/{oid[0:2]}/{oid[2:4]}/{oid}
s3Key(repoName, oid) == <<repoName, SubSeq(oid, 1, 2), SubSeq(oid, 3, 4), oid>>

\* one iteration of the loop of handleLFSBatch over req.Objects
LFSObjectResponse(repoName, operation, oid, env) ==
    IF operation = "upload"
    THEN IF ~env.presign THEN [OID |-> oid, Action |-> "", Href |-> <<>>, Error |-> 500]
         ELSE [OID |-> oid, Action |-> "upload", Href |-> s3Key(repoName, oid), Error |-> 0]
    ELSE IF operation = "download"
    THEN IF ~env.stored THEN [OID |-> oid, Action |-> "", Href |-> <<>>, Error |-> 404]
         ELSE IF ~env.presign
         THEN [OID |-> oid, Action |-> "", Href |-> <<>>, Error |-> 500]
         ELSE [OID |-> oid, Action |-> "download", Href |-> s3Key(repoName, oid),
               Error |-> 0]
    ELSE [OID |-> oid, Action |-> "", Href |-> <<>>, Error |-> 0]

\* the two access checks of handleLFSBatch that read the operation, with
\* upload checked like download
LFSDenied_uploadAsDownload(operation, isPublic, isTailnet) ==
    \/ operation = "upload" /\ ~isPublic /\ ~isTailnet
    \/ operation = "download" /\ ~isPublic /\ ~isTailnet

\* the two access checks of handleLFSBatch that read the operation
LFSDenied(operation, isPublic, isTailnet) ==
    \/ operation = "upload" /\ ~isTailnet
    \/ operation = "download" /\ ~isPublic /\ ~isTailnet

\* handleLFSBatch.  Slicing an id shorter than four characters panics; the
\* Recoverer middleware turns the panic into a 500.
handleLFSBatch(r, env) ==
    LET req == r.body
        isPublic == IsPublicRepo(r.repo)
        isTailnet == isTailnetRequest(r.caller)
    IN /\ last' =
            IF ~RepoExists(r.repo) THEN Response("handleLFSBatch", r, 404, NoPage)
            ELSE IF ~req.ok THEN Response("handleLFSBatch", r, 400, NoPage)
            ELSE IF LFSDenied(req.Operation, isPublic, isTailnet)
            THEN Response("handleLFSBatch", r, 403, NoPage)
            ELSE IF admin.lfsConfig = NoFile
            THEN Response("handleLFSBatch", r, 503, NoPage)
            ELSE IF ~env.s3 THEN Response("handleLFSBatch", r, 500, NoPage)
            ELSE IF \E i \in 1..Len(req.Objects) : Len(req.Objects[i]) < 4
            THEN Response("handleLFSBatch", r, 500, NoPage)
            ELSE Response("handleLFSBatch", r, 200,
                          [i \in 1..Len(req.Objects) |->
                              LFSObjectResponse(r.repo, req.Operation,
                                                req.Objects[i], env)])
       /\ UNCHANGED <<repos, admin, ipVars, gitVars, fnVars>>

----------------------------------------------------------------------------
(* The server as a state machine: one step is one request, handled by the  *)
(* handler the router gives it to, after the RealIP middleware.            *)

TreeRequestPaths == {<<>>, <<"a", "/">>, <<"nope">>}

BlobRequestPaths == {<<"README.md">>, <<"a">>}

SubmoduleRequestPaths == {<<"c">>, <<"a">>}

CommitRequestHashes == {"c1", "nope"}

NoForm == [formOK |-> FALSE]

NewRepoForms ==
    { [formOK |-> TRUE, name |-> <<" ", "beta", " ">>, description |-> <<" ", "d1">>,
       visibility |-> "public"],
      [formOK |-> TRUE, name |-> <<" ">>, description |-> <<>>, visibility |-> "public"],
      [formOK |-> TRUE, name |-> <<"beta", "/", "alpha">>, description |-> <<>>,
       visibility |-> "public"],
      [formOK |-> TRUE, name |-> <<"alpha">>, description |-> <<>>,
       visibility |-> "public"],
      NoForm }

SettingsForms ==
    { [formOK |-> TRUE, description |-> <<" ", "d1">>, visibility |-> "public",
       pages_enabled |-> "on", pages_branch |-> "", pages_build_cmd |-> "",
       pages_output_dir |-> "", mirror_enabled |-> "on", mirror_url |-> <<"u1">>],
      [formOK |-> TRUE, description |-> <<>>, visibility |-> "private",
       pages_enabled |-> "", pages_branch |-> "v1", pages_build_cmd |-> "make",
       pages_output_dir |-> "out", mirror_enabled |-> "", mirror_url |-> <<>>],
      [formOK |-> TRUE, description |-> <<>>, visibility |-> "PUBLIC",
       pages_enabled |-> "", pages_branch |-> "", pages_build_cmd |-> "",
       pages_output_dir |-> "", mirror_enabled |-> "on", mirror_url |-> <<" ">>],
      NoForm }

LFSConfigForms ==
    { [formOK |-> TRUE, lfs_enabled |-> "on", lfs_endpoint |-> <<"e1">>,
       lfs_bucket |-> <<"b1">>, lfs_region |-> <<" ">>, lfs_access_key |-> <<"k1">>,
       lfs_secret_key |-> <<"s1">>],
      [formOK |-> TRUE, lfs_enabled |-> "", lfs_endpoint |-> <<>>, lfs_bucket |-> <<>>,
       lfs_region |-> <<>>, lfs_access_key |-> <<>>, lfs_secret_key |-> <<>>],
      NoForm }

BackupConfigForms ==
    { [formOK |-> TRUE, backup_enabled |-> "on", backup_endpoint |-> <<"e1">>,
       backup_bucket |-> <<"b1">>, backup_region |-> <<>>,
       backup_access_key |-> <<"k1">>, backup_secret_key |-> <<"s1">>,
       backup_schedule |-> ""],
      NoForm }

Oid == <<"a", "b", "c", "d", "e">>

ShortOid == <<"a", "b">>

LFSBodies ==
    { [ok |-> FALSE],
      [ok |-> TRUE, Operation |-> "upload", Objects |-> <<Oid>>],
      [ok |-> TRUE, Operation |-> "download", Objects |-> <<Oid>>],
      [ok |-> TRUE, Operation |-> "verify", Objects |-> <<Oid>>],
      [ok |-> TRUE, Operation |-> "download", Objects |-> <<Oid, ShortOid>>] }

StoreOutcomes ==
    { [s3 |-> TRUE, stored |-> TRUE, presign |-> TRUE],
      [s3 |-> FALSE, stored |-> TRUE, presign |-> TRUE],
      [s3 |-> TRUE, stored |-> FALSE, presign |-> TRUE],
      [s3 |-> TRUE, stored |-> TRUE, presign |-> FALSE] }

NoRequest == [handler |-> "", req |-> <<>>, status |-> 0, page |-> NoPage]

\* the files beside the repositories directory when the server starts
InstalledFiles ==
    [sshKey |-> FALSE, source |-> "old", binary |-> "old",
     lfsConfig |-> NoFile, backupConfig |-> NoFile,
     backupConf |-> FileOf([AWS_ENDPOINT_URL |-> Quoted(<<"e0">>),
                            S3_BUCKET |-> Quoted(<<"b0">>)]),
     awsCredentials |-> NoFile]

\* an lfs-config.json as handleLFSConfigPost writes it
InstalledLFSConfig ==
    FileOf([endpoint |-> <<"e1">>, bucket |-> <<"b1">>, region |-> <<"auto">>,
            access_key |-> <<"k1">>, secret_key |-> <<"s1">>])

\* one pushed repository, public or private; LFS configured or not
Init ==
    /\ \E public \in BOOLEAN :
           repos = [n \in RepoNames |-> IF n = "alpha" THEN PushedRepo(public) ELSE NoRepo]
    /\ \E cfg \in {NoFile, InstalledLFSConfig} :
           admin = [InstalledFiles EXCEPT !.lfsConfig = cfg]
    /\ last = NoRequest
    /\ lit = <<>> /\ verdict = <<>> /\ hdrs = <<>> /\ clientIP = <<>>
    /\ refs = <<>> /\ res = <<>> /\ tree = <<>>
    /\ input = <<>> /\ output = <<>>

\* the requests of each route
\* a request with no parameter: the index, the creation form, the admin routes
PlainRequests == {[caller |-> c] : c \in Requesters}

RepoRequests == {[caller |-> c, repo |-> n] : c \in Requesters, n \in RepoNames}

TreeRequests ==
    {[caller |-> c, repo |-> n, ref |-> "main", path |-> path] :
        c \in Requesters, n \in RepoNames, path \in TreeRequestPaths}

SubmoduleRequests ==
    {[caller |-> c, repo |-> n, ref |-> "main", path |-> path] :
        c \in Requesters, n \in RepoNames, path \in SubmoduleRequestPaths}

BlobRequests ==
    {[caller |-> c, repo |-> n, ref |-> "main", path |-> path] :
        c \in Requesters, n \in RepoNames, path \in BlobRequestPaths}

CommitsRequests ==
    {[caller |-> c, repo |-> n, ref |-> "main"] : c \in Requesters, n \in RepoNames}

CommitRequests ==
    {[caller |-> c, repo |-> n, hash |-> hash] :
        c \in Requesters, n \in RepoNames, hash \in CommitRequestHashes}

NewRepoRequests == {[caller |-> c, form |-> f] : c \in Requesters, f \in NewRepoForms}

SettingsRequests ==
    {[caller |-> c, repo |-> n, form |-> f] :
        c \in Requesters, n \in RepoNames, f \in SettingsForms}

LFSConfigRequests == {[caller |-> c, form |-> f] : c \in Requesters, f \in LFSConfigForms}

BackupConfigRequests ==
    {[caller |-> c, form |-> f] : c \in Requesters, f \in BackupConfigForms}

LFSBatchRequests ==
    {[caller |-> c, repo |-> n, body |-> body] :
        c \in Requesters, n \in RepoNames, body \in LFSBodies}

\* the routes that name a repository or list them, and repository creation
Next ==
    \/ \E r \in PlainRequests : handleIndex(r)
    \/ \E r \in RepoRequests : handleRepo(r)
    \/ \E r \in TreeRequests : handleTree(r)
    \/ \E r \in SubmoduleRequests : handleSubmodule(r)
    \/ \E r \in BlobRequests : handleBlob(r)
    \/ \E r \in CommitsRequests : handleCommits(r)
    \/ \E r \in CommitRequests : handleCommit(r)
    \/ \E r \in PlainRequests : handleNewRepo(r)
    \/ \E r \in NewRepoRequests, initOK \in BOOLEAN : handleNewRepoPost(r, initOK)
    \/ \E r \in RepoRequests : handleRepoSettings(r)
    \/ \E r \in SettingsRequests : handleRepoSettingsPost(r)
    \/ \E r \in LFSBatchRequests, env \in StoreOutcomes : handleLFSBatch(r, env)

Spec == Init /\ [][Next]_vars

\* the server under write and administrative requests only
InitAdmin ==
    /\ \E public \in BOOLEAN :
           repos = [n \in RepoNames |-> IF n = "alpha" THEN PushedRepo(public) ELSE NoRepo]
    /\ admin = InstalledFiles
    /\ last = NoRequest
    /\ lit = <<>> /\ verdict = <<>> /\ hdrs = <<>> /\ clientIP = <<>>
    /\ refs = <<>> /\ res = <<>> /\ tree = <<>>
    /\ input = <<>> /\ output = <<>>

NextAdmin ==
    \/ \E r \in NewRepoRequests, initOK \in BOOLEAN : handleNewRepoPost(r, initOK)
    \/ \E r \in SettingsRequests : handleRepoSettingsPost(r)
    \/ \E r \in PlainRequests, keygenOK \in BOOLEAN : handleGenerateSSHKey(r, keygenOK)
    \/ \E r \in PlainRequests, pullOK \in BOOLEAN, buildOK \in BOOLEAN :
           handleUpdateServer(r, pullOK, buildOK)
    \/ \E r \in LFSConfigRequests, writeOK \in BOOLEAN : handleLFSConfigPost(r, writeOK)
    \/ \E r \in BackupConfigRequests, writeOK \in BOOLEAN :
           handleBackupConfigPost(r, writeOK)

SpecAdmin == InitAdmin /\ [][NextAdmin]_vars

----------------------------------------------------------------------------
(* Properties of the access gate (Spec, SpecAdmin).  last is the request *)
(* handled by the step that led to the state, with its answer; the handlers *)
(* of Spec that read a repository leave the repositories as they were.     *)
(* Whether a caller is trusted is read from the caller's description, and   *)
(* whether a repository is public from its marker file.                    *)

ContentHandlers ==
    {"handleTree", "handleBlob", "handleCommits", "handleCommit", "handleSubmodule"}

\* what repository alpha holds at main, of the things the requests ask for
ContentExists(h, req) ==
    CASE h = "handleTree" -> req.path \in {<<>>, <<"a", "/">>}
      [] h = "handleBlob" -> req.path = <<"README.md">>
      [] h = "handleSubmodule" -> req.path = <<"c">>
      [] h = "handleCommits" -> TRUE
      [] h = "handleCommit" -> req.hash = "c1"

\* C1: on an existing repository a content request (tree, blob, commits,
\* commit, submodule) is answered 403 iff the repository is private and the
\* caller untrusted; otherwise it is served: 200 exactly when the
\* repository holds what was asked for.
C1_ReadGate ==
    (last.handler \in ContentHandlers /\ repos[last.req.repo].exists) =>
        LET granted == repos[last.req.repo].public \/ last.req.caller.trusted
        IN /\ (last.status = 403) <=> ~granted
           /\ granted => ((last.status = 200) <=>
                             (last.req.repo = "alpha"
                              /\ ContentExists(last.handler, last.req)))

\* a trusted caller is served the tree of a private repository
C1_Witness ==
    /\ last.handler = "handleTree" /\ last.status = 200
    /\ ~repos[last.req.repo].public /\ last.req.caller.trusted

WriteHandlers ==
    {"handleNewRepoPost", "handleRepoSettingsPost", "handleGenerateSSHKey",
     "handleUpdateServer", "handleLFSConfigPost", "handleBackupConfigPost"}

\* C2: a write or administrative request of an untrusted caller is answered
\* 403 and leaves every repository and every file of the installation as it
\* was; a trusted caller's request is never answered 403.
C2_WriteGate ==
    [][ last'.handler \in WriteHandlers =>
           IF last'.req.caller.trusted
           THEN last'.status # 403
           ELSE last'.status = 403 /\ repos' = repos /\ admin' = admin ]_vars

\* an untrusted caller was refused the settings of an existing public
\* repository
C2_Witness ==
    /\ last.handler = "handleRepoSettingsPost" /\ last.status = 403
    /\ repos[last.req.repo].exists /\ repos[last.req.repo].public

RepoHandlers ==
    ContentHandlers \cup {"handleRepoSettings", "handleRepoSettingsPost", "handleLFSBatch"}

\* C3: every request that names a repository that does not exist is
\* answered 404, whoever the caller is.
C3_MissingRepoIs404 ==
    (last.handler \in RepoHandlers /\ ~repos[last.req.repo].exists) =>
        last.status = 404

\* C4: on an existing repository a decodable LFS batch request is refused
\* (403) iff it is an upload by an untrusted caller or a download from a
\* private repository by an untrusted caller; no answer holds an upload
\* action for an untrusted caller, nor a download action for an untrusted
\* caller on a private repository.
C4_LFSGate ==
    (last.handler = "handleLFSBatch" /\ repos[last.req.repo].exists /\ last.req.body.ok) =>
        LET op == last.req.body.Operation
            trusted == last.req.caller.trusted
            public == repos[last.req.repo].public
        IN /\ op = "upload" => ((last.status = 403) <=> ~trusted)
           /\ op = "download" => ((last.status = 403) <=> (~public /\ ~trusted))
           /\ op \notin {"upload", "download"} => last.status # 403
           /\ \A i \in DOMAIN last.page :
                 /\ last.page[i].Action = "upload" => trusted /\ op = "upload"
                 /\ last.page[i].Action = "download" =>
                        (public \/ trusted) /\ op = "download"

\* an upload action was handed out for a public repository
C4_Witness ==
    /\ last.handler = "handleLFSBatch" /\ last.status = 200
    /\ repos[last.req.repo].public
    /\ \E i \in DOMAIN last.page : last.page[i].Action = "upload"

\* C8: the index lists a repository iff it exists and is public or the
\* caller is trusted, so a private repository is listed iff the caller is
\* trusted, and every repository listed for an untrusted caller is public.
C8_IndexListing ==
    last.handler = "handleIndex" =>
        /\ \A n \in RepoNames :
              (\E i \in DOMAIN last.page : last.page[i].Name = n) <=>
                  (repos[n].exists /\ (repos[n].public \/ last.req.caller.trusted))
        /\ ~last.req.caller.trusted =>
              \A i \in DOMAIN last.page : last.page[i].IsPublic

\* the index listed a private repository to a trusted caller beside a
\* public one
C8_Witness ==
    /\ last.handler = "handleIndex" /\ last.req.caller.trusted
    /\ \E i, j \in DOMAIN last.page : ~last.page[i].IsPublic /\ last.page[j].IsPublic

----------------------------------------------------------------------------
(* Properties of the classifier (SpecIP).                                  *)

InRange(addr) == addr # <<>> /\ addr[1] = 100 /\ addr[2] >= 64 /\ addr[2] <= 127

\* C5: for every IPv4 literal a.b.c.d, with or without a :port suffix,
\* IsTailnetIP returns true iff a = 100 and 64 <= b <= 127.
C5_IPv4RangeTest ==
    (verdict # <<>> /\ lit.kind = "v4" /\ lit.form \in {"bare", "port"})
        => (verdict[1] <=> (lit.addr[1] = 100 /\ lit.addr[2] >= 64 /\ lit.addr[2] <= 127))

\* a literal with a port at the upper edge of the range was classified trusted
C5_Witness ==
    /\ verdict = <<TRUE>>
    /\ lit.kind = "v4" /\ lit.form = "port"
    /\ lit.addr[1] = 100 /\ lit.addr[2] = 127

\* C6 as stated: IsTailnetIP returns false for every literal written in
\* IPv6 syntax, whatever address it encodes, and for every unparsable or
\* empty literal.
C6_IPv6AlwaysUntrusted ==
    (verdict # <<>> /\ lit.kind \in {"v6", "junk"}) => verdict[1] = FALSE

\* C6 amended: IsTailnetIP always returns a boolean; it returns false for
\* every unparsable or empty literal; for a literal written in IPv6 syntax
\* (bare, bracketed, bracketed with port) it returns true iff the address
\* is IPv4-mapped (::ffff:0:0/96) and the mapped IPv4 address is in
\* 100.64.0.0/10.
C6_IPv6MappedOnly ==
    verdict # <<>> =>
        /\ verdict[1] \in BOOLEAN
        /\ lit.kind = "junk" => verdict[1] = FALSE
        /\ lit.kind = "v6" => (verdict[1] <=> InRange(lit.addr))

\* a bracketed IPv4-mapped literal without a port was classified trusted
C6_Witness ==
    /\ verdict = <<TRUE>>
    /\ lit.kind = "v6" /\ lit.form = "bracket"

\* C7: GetClientIP takes a non-empty X-Real-IP; else the first
\* comma-separated token of a non-empty X-Forwarded-For, trimmed; else the
\* peer address; and normalizes what it took.  With real-IP 100.100.1.1 and
\* forwarded-for "8.8.8.8, 1.1.1.1" the result is 100.100.1.1.
C7_HeaderPrecedence ==
    clientIP # <<>> =>
        /\ hdrs.xRealIP # <<>> => clientIP[1] = cleanIPString(hdrs.xRealIP)
        /\ (hdrs.xRealIP = <<>> /\ hdrs.xff # <<>>)
               => clientIP[1] = cleanIPString(hdrs.xffFirst)
        /\ (hdrs.xRealIP = <<>> /\ hdrs.xff = <<>>)
               => clientIP[1] = cleanIPString(hdrs.remoteAddr)
        /\ (/\ hdrs.xRealIP = <<"100", ".", "100", ".", "1", ".", "1">>
            /\ hdrs.xff = <<"8", ".", "8", ".", "8", ".", "8", ",", " ",
                            "1", ".", "1", ".", "1", ".", "1">>)
               => clientIP[1] = <<"100", ".", "100", ".", "1", ".", "1">>

\* the example of the spec was resolved
C7_Witness ==
    /\ clientIP = << <<"100", ".", "100", ".", "1", ".", "1">> >>
    /\ hdrs.xRealIP = <<"100", ".", "100", ".", "1", ".", "1">>
    /\ hdrs.xff = <<"8", ".", "8", ".", "8", ".", "8", ",", " ",
                    "1", ".", "1", ".", "1", ".", "1">>

----------------------------------------------------------------------------
(* Properties of the content engine (SpecGit).                             *)

\* the repository with every reference at commit c
FixedRepo(c) ==
    [branches |-> [b \in BranchNames |-> c], tags |-> [t \in TagNames |-> c],
     objects |-> CommitIds]

\* what a tree page for path shows when everything is read from commit c
PageAt(c, path) ==
    LET t == GetTreeAt(c, path)
        readme == findReadme(t.entries)
        b == GetBlobAt(c, JoinPathTokens(path, readme))
    IN [entries |-> t.entries,
        submodules |-> GetSubmodulesForPath(FixedRepo(c), "main", path),
        readme |-> IF readme # "" /\ b.ok THEN b.content ELSE ""]

\* C9: within one tree request, the directory entries, the submodule
\* records and the README content are all taken from one and the same
\* revision, even when a push moves the reference meanwhile.
C9_OneSnapshotPerRequest ==
    (tree.pc = "done" /\ tree.status = 200) =>
        \E c \in CommitIds :
            /\ GetTreeAt(c, tree.path).ok
            /\ [entries |-> tree.entries, submodules |-> tree.submodules,
                readme |-> tree.readme] = PageAt(c, tree.path)

\* C10: resolveRef returns the first match of: branch, tag, HEAD's target
\* for "" or "HEAD", the string as a commit id, HEAD's target; a string that
\* names both a branch and a tag resolves to the branch's revision.
C10_ResolutionOrder ==
    res # <<>> =>
        LET ref == res[1].ref
            out == res[1].out
            isBranch == ref \in BranchNames /\ refs.branches[ref] # NoRef
            isTag    == ref \in TagNames /\ refs.tags[ref] # NoRef
            headOk   == refs.branches[HeadBranch] # NoRef
            isHead   == ref \in {"", "HEAD"} /\ headOk
            isCommit == ref \in CommitIds
        IN /\ isBranch => out = [ok |-> TRUE, hash |-> refs.branches[ref]]
           /\ (~isBranch /\ isTag) => out = [ok |-> TRUE, hash |-> refs.tags[ref]]
           /\ (~isBranch /\ ~isTag /\ isHead)
                  => out = [ok |-> TRUE, hash |-> refs.branches[HeadBranch]]
           /\ (~isBranch /\ ~isTag /\ ~isHead /\ isCommit)
                  => out = [ok |-> TRUE, hash |-> ref]
           /\ (~isBranch /\ ~isTag /\ ~isHead /\ ~isCommit /\ headOk)
                  => out = [ok |-> TRUE, hash |-> refs.branches[HeadBranch]]

\* a string naming a branch and a tag at different revisions was resolved
C10_Witness ==
    /\ res # <<>>
    /\ res[1].ref = "v1"
    /\ refs.branches["v1"] \in CommitIds
    /\ refs.tags["v1"] \in CommitIds
    /\ refs.branches["v1"] # refs.tags["v1"]
    /\ res[1].out.hash = refs.branches["v1"]

\* C11: resolveRef fails iff the string names no branch, no tag and no
\* commit and HEAD does not resolve; whenever it succeeds the hash it
\* returns is a commit of the repository.
C11_FailsOnlyWhenUnresolvable ==
    res # <<>> =>
        LET ref == res[1].ref
            out == res[1].out
            named == \/ ref \in BranchNames /\ refs.branches[ref] # NoRef
                     \/ ref \in TagNames /\ refs.tags[ref] # NoRef
                     \/ ref \in CommitIds
            headOk == refs.branches[HeadBranch] # NoRef
        IN /\ ~out.ok <=> (~named /\ ~headOk)
           /\ out.ok => out.hash \in refs.objects

----------------------------------------------------------------------------
\* SpecTree: GetTree's listing of one tree object, for every small tree object.

TreeNames == {"README.md", "a", "b.txt", "c", "d"}
TreeKinds == {"file", "dir", "submodule"}

\* one entry of a tree object (object.TreeEntry: name, mode, hash)
TreeObjectEntry(n, k) ==
    CASE k = "dir" -> Dir(<<n>>, "t")
      [] k = "submodule" -> Sub(<<n>>, "s")
      [] OTHER -> File(<<n>>, "b", "x")

\* the tree objects: entry names are unique within a tree
TreeObjects ==
    {{TreeObjectEntry(n, f[n]) : n \in {m \in TreeNames : f[m] # "none"}} :
        f \in [TreeNames -> TreeKinds \cup {"none"}]}

MaxCalls == 2

InitTree ==
    /\ input \in {<<t>> : t \in TreeObjects}
    /\ output = <<>>
    /\ lit = <<>> /\ verdict = <<>> /\ hdrs = <<>> /\ clientIP = <<>>
    /\ refs = <<>> /\ res = <<>> /\ tree = <<>>
    /\ repos = <<>> /\ admin = <<>> /\ last = <<>>

\* one call of GetTree on the tree object: the entry loop and the sort
GetTreeEntries ==
    /\ Len(output) < MaxCalls
    /\ \E p \in sortSlice({MakeTreeEntry(e) : e \in input[1]}) :
           output' = Append(output, p)
    /\ UNCHANGED <<input, ipVars, gitVars, srvVars>>

NextTree == GetTreeEntries

SpecTree == InitTree /\ [][NextTree]_vars

\* the kind tier the ordering contract gives an entry of the tree object
KindTier(k) == CASE k = "dir" -> 1 [] k = "submodule" -> 2 [] OTHER -> 3

KindOfName(t, n) == (CHOOSE e \in t : e.path = <<n>>).kind

ExampleTree == {TreeObjectEntry("b.txt", "file"), TreeObjectEntry("a", "dir"),
                TreeObjectEntry("c", "submodule")}

EntryNames(p) == [i \in 1..Len(p) |-> p[i].Name]

\* C12: GetTree lists directories before submodules before files, and
\* entries of one kind by ascending name; every call on the same tree object
\* returns the same sequence; {file b.txt, directory a, submodule c} is
\* listed as a, c, b.txt.
C12_TreeOrder ==
    input # <<>> =>
        LET t == input[1] IN
        /\ \A k \in 1..Len(output) :
              LET p == output[k] IN
              /\ Len(p) = Cardinality(t)
              /\ {p[i].Name : i \in 1..Len(p)} = {e.path[1] : e \in t}
              /\ \A i, j \in 1..Len(p) : i < j =>
                    LET ti == KindTier(KindOfName(t, p[i].Name))
                        tj == KindTier(KindOfName(t, p[j].Name))
                    IN \/ ti < tj
                       \/ ti = tj /\ NameRank(p[i].Name) < NameRank(p[j].Name)
              /\ t = ExampleTree => EntryNames(p) = <<"a", "c", "b.txt">>
        /\ \A k1, k2 \in 1..Len(output) : output[k1] = output[k2]

C12_Witness ==
    /\ input = <<ExampleTree>>
    /\ Len(output) = MaxCalls
    /\ EntryNames(output[2]) = <<"a", "c", "b.txt">>

----------------------------------------------------------------------------
\* SpecDiff: GetCommitDiff on one commit object, for every small commit.

DiffPaths == {"b.txt", "x.txt"}
BlobIds == {"b1", "b2", "b3", "bin"}
NoBlob == "none"

\* the lines of a blob, each ended by a newline; b3 starts with a blank line.
\* Two different blobs are less than 60% similar.
BlobLines(b) ==
    CASE b = "b1" -> <<"l1">>
      [] b = "b2" -> <<"l1", "l2">>
      [] b = "b3" -> <<"", "l3">>
      [] OTHER -> <<>>

IsBinaryBlob(b) == b = "bin"

FlatTrees == [DiffPaths -> BlobIds \cup {NoBlob}]
EmptyTree == [p \in DiffPaths |-> NoBlob]

\* object.ChangeEntry; the zero entry has the empty name
NoChangeEntry == [Name |-> "", Blob |-> NoBlob]
ChangeEntry(t, p) == [Name |-> p, Blob |-> t[p]]

\* the changes merkletrie reports between two trees, before renames are looked for
TreeChanges(from, to) ==
    {[From |-> IF from[p] = NoBlob THEN NoChangeEntry ELSE ChangeEntry(from, p),
      To |-> IF to[p] = NoBlob THEN NoChangeEntry ELSE ChangeEntry(to, p)] :
        p \in {q \in DiffPaths : from[q] # to[q]}}

\* Change.Action(): 0 stands for the error on a change with neither side
Action(change) ==
    IF change.From = NoChangeEntry /\ change.To = NoChangeEntry THEN 0
    ELSE IF change.From = NoChangeEntry THEN 1
    ELSE IF change.To = NoChangeEntry THEN 2
    ELSE 3

\* object.DetectRenames, exact renames: a deleted and an inserted entry with
\* the same blob become one change from the old path to the new path
DetectRenames(changes) ==
    LET pairs == {<<d, i>> \in changes \X changes :
                     /\ Action(d) = 2 /\ Action(i) = 1
                     /\ d.From.Blob = i.To.Blob}
        gone == {pr[1] : pr \in pairs} \cup {pr[2] : pr \in pairs}
    IN (changes \ gone) \cup {[From |-> pr[1].From, To |-> pr[2].To] : pr \in pairs}

\* the name go-git sorts a change by
changeName(change) == IF change.To = NoChangeEntry THEN change.From.Name ELSE change.To.Name

RECURSIVE sortChanges(_)
sortChanges(S) ==
    IF S = {} THEN <<>>
    ELSE LET m == CHOOSE x \in S :
                     \A y \in S : NameRank(changeName(x)) <= NameRank(changeName(y))
         IN <<m>> \o sortChanges(S \ {m})

\* parentTree.Diff(currentTree) and object.DiffTree(nil, currentTree)
DiffTree(from, to) == sortChanges(DetectRenames(TreeChanges(from, to)))

\* the status and names GetCommitDiff gives a change with a moved source
\* reported as a plain modification (mutant)
classify_renameAsModified(change) ==
    CASE Action(change) = 1 -> [Status |-> "added", Name |-> change.To.Name, OldName |-> ""]
      [] Action(change) = 2 -> [Status |-> "deleted", Name |-> change.From.Name, OldName |-> ""]
      [] OTHER -> [Status |-> "modified", Name |-> change.To.Name, OldName |-> ""]

\* the switch on the action with an insertion reported as a modification
\* (mutant)
classify_insertAsModified(change) ==
    CASE Action(change) = 2 -> [Status |-> "deleted", Name |-> change.From.Name, OldName |-> ""]
      [] Action(change) = 3 /\ change.From.Name # change.To.Name ->
             [Status |-> "renamed", Name |-> change.To.Name, OldName |-> change.From.Name]
      [] OTHER -> [Status |-> "modified", Name |-> change.To.Name, OldName |-> ""]

\* the switch on the action: status, name and old name of the FileDiff
classify(change) ==
    CASE Action(change) = 1 -> [Status |-> "added", Name |-> change.To.Name, OldName |-> ""]
      [] Action(change) = 2 -> [Status |-> "deleted", Name |-> change.From.Name, OldName |-> ""]
      [] Action(change) = 3 ->
             IF change.From.Name # change.To.Name
             THEN [Status |-> "renamed", Name |-> change.To.Name,
                   OldName |-> change.From.Name]
             ELSE [Status |-> "modified", Name |-> change.To.Name, OldName |-> ""]
      [] OTHER -> [Status |-> "", Name |-> "", OldName |-> ""]

\* the length of the longest common prefix of two line sequences
RECURSIVE CommonPrefix(_, _)
CommonPrefix(a, b) ==
    IF a = <<>> \/ b = <<>> \/ a[1] # b[1] THEN 0
    ELSE 1 + CommonPrefix(Tail(a), Tail(b))

Reverse(a) == [i \in 1..Len(a) |-> a[Len(a) + 1 - i]]

\* diff.Do on the lines of two blobs: the common head, the lines only the
\* old blob has, the lines only the new blob has, the common tail; empty
\* pieces make no chunk. Chunk types: 0 equal, 1 add, 2 delete.
DiffChunks(old, new) ==
    LET pre == CommonPrefix(old, new)
        o1 == SubSeq(old, pre + 1, Len(old))
        n1 == SubSeq(new, pre + 1, Len(new))
        suf == CommonPrefix(Reverse(o1), Reverse(n1))
        all == << [Type |-> 0, Lines |-> SubSeq(old, 1, pre)],
                  [Type |-> 2, Lines |-> SubSeq(o1, 1, Len(o1) - suf)],
                  [Type |-> 1, Lines |-> SubSeq(n1, 1, Len(n1) - suf)],
                  [Type |-> 0, Lines |-> SubSeq(o1, Len(o1) - suf + 1, Len(o1))] >>
    IN SelectSeq(all, LAMBDA c : c.Lines # <<>>)

\* change.Patch().FilePatches(): one file patch for the change
FilePatch(change) ==
    IF IsBinaryBlob(change.From.Blob) \/ IsBinaryBlob(change.To.Blob)
    THEN [IsBinary |-> TRUE, Chunks |-> <<>>]
    ELSE [IsBinary |-> FALSE,
          Chunks |-> DiffChunks(BlobLines(change.From.Blob), BlobLines(change.To.Blob))]

\* strings.Split(chunk.Content(), "\n"): every line ends with a newline, so
\* the pieces are the lines and one empty piece after the last newline
SplitContent(chunk) == chunk.Lines \o <<"">>

TypeName(t) == CASE t = 1 -> "add" [] t = 2 -> "delete" [] OTHER -> "context"

\* the loop over the pieces of one chunk with the counters taken before the
\* empty pieces are skipped (mutant)
processChunk_countsEmpty(chunk) ==
    LET kept == SelectSeq(SplitContent(chunk), LAMBDA l : l # "")
    IN [Lines |-> [i \in 1..Len(kept) |-> [Type |-> TypeName(chunk.Type), Content |-> kept[i]]],
        Additions |-> IF chunk.Type = 1 THEN Len(SplitContent(chunk)) ELSE 0,
        Deletions |-> IF chunk.Type = 2 THEN Len(SplitContent(chunk)) ELSE 0]

\* the loop over the pieces of one chunk: the DiffLines and what it adds to
\* the addition and deletion counters
processChunk(chunk) ==
    LET kept == SelectSeq(SplitContent(chunk), LAMBDA l : l # "")
    IN [Lines |-> [i \in 1..Len(kept) |-> [Type |-> TypeName(chunk.Type), Content |-> kept[i]]],
        Additions |-> IF chunk.Type = 1 THEN Len(kept) ELSE 0,
        Deletions |-> IF chunk.Type = 2 THEN Len(kept) ELSE 0]

RECURSIVE SumOf(_, _)
SumOf(seq, field) ==
    IF seq = <<>> THEN 0 ELSE seq[1][field] + SumOf(Tail(seq), field)

\* the FileDiff built for one change
MakeFileDiff(change) ==
    LET fp == FilePatch(change)
        done == [i \in 1..Len(fp.Chunks) |-> processChunk(fp.Chunks[i])]
        kept == SelectSeq(done, LAMBDA c : Len(c.Lines) > 0)
    IN [Name |-> classify(change).Name,
        OldName |-> classify(change).OldName,
        Status |-> classify(change).Status,
        Additions |-> SumOf(done, "Additions"),
        Deletions |-> SumOf(done, "Deletions"),
        IsBinary |-> fp.IsBinary,
        Chunks |-> [i \in 1..Len(kept) |-> [Lines |-> kept[i].Lines]]]

\* a change with neither side, for which Change.Action() returns an error
MalformedChange == [From |-> NoChangeEntry, To |-> NoChangeEntry]

\* the changes the loop of GetCommitDiff ranges over
Changes(cm) ==
    LET parentLoaded == cm.numParents > 0 /\ ~cm.parentErr
        parentTree == IF parentLoaded /\ ~cm.parentTreeErr THEN cm.base ELSE EmptyTree
    IN (IF cm.malformed THEN <<MalformedChange>> ELSE <<>>) \o DiffTree(parentTree, cm.cur)

\* GetCommitDiff with the files-changed counter raised before the action
\* of the change is looked at (mutant)
GetCommitDiffOf_countsSkipped(cm) ==
    LET parentLoaded == cm.numParents > 0 /\ ~cm.parentErr
        parentHash == IF parentLoaded THEN ShortHash(cm.parentHash) ELSE <<>>
        changes == SelectSeq(Changes(cm), LAMBDA c : Action(c) # 0)
        files == [i \in 1..Len(changes) |-> MakeFileDiff(changes[i])]
        meta == [Hash |-> cm.hash, ShortHash |-> ShortHash(cm.hash)]
    IN IF cm.treeErr
       THEN [Commit |-> meta, ParentHash |-> parentHash, Files |-> <<>>,
             Stats |-> [FilesChanged |-> 0, Additions |-> 0, Deletions |-> 0]]
       ELSE [Commit |-> meta, ParentHash |-> parentHash, Files |-> files,
             Stats |-> [FilesChanged |-> Len(Changes(cm)),
                        Additions |-> SumOf(files, "Additions"),
                        Deletions |-> SumOf(files, "Deletions")]]

\* GetCommitDiff once the commit object cm is loaded
GetCommitDiffOf(cm) ==
    LET parentLoaded == cm.numParents > 0 /\ ~cm.parentErr
        parentHash == IF parentLoaded THEN ShortHash(cm.parentHash) ELSE <<>>
        changes == SelectSeq(Changes(cm), LAMBDA c : Action(c) # 0)
        files == [i \in 1..Len(changes) |-> MakeFileDiff(changes[i])]
        meta == [Hash |-> cm.hash, ShortHash |-> ShortHash(cm.hash)]
    IN IF cm.treeErr
       THEN [Commit |-> meta, ParentHash |-> parentHash, Files |-> <<>>,
             Stats |-> [FilesChanged |-> 0, Additions |-> 0, Deletions |-> 0]]
       ELSE [Commit |-> meta, ParentHash |-> parentHash, Files |-> files,
             Stats |-> [FilesChanged |-> Len(files),
                        Additions |-> SumOf(files, "Additions"),
                        Deletions |-> SumOf(files, "Deletions")]]

\* the commit objects: a root commit, and commits with one parent whose
\* parent object, parent tree or own tree may be unreadable
DiffCommits ==
    {[hash |-> HashOf("c2"), numParents |-> 0, parentHash |-> HashOf("c1"),
      parentErr |-> FALSE, parentTreeErr |-> FALSE, treeErr |-> te,
      malformed |-> mf, base |-> EmptyTree, cur |-> cur] :
        te \in BOOLEAN, mf \in BOOLEAN, cur \in FlatTrees}
    \cup
    {[hash |-> HashOf("c2"), numParents |-> 1, parentHash |-> HashOf("c1"),
      parentErr |-> pe, parentTreeErr |-> pte, treeErr |-> te,
      malformed |-> mf, base |-> base, cur |-> cur] :
        pe \in BOOLEAN, pte \in BOOLEAN, te \in BOOLEAN, mf \in BOOLEAN,
        base \in FlatTrees, cur \in FlatTrees}

InitDiff ==
    /\ input \in {<<cm>> : cm \in DiffCommits}
    /\ output = <<>>
    /\ lit = <<>> /\ verdict = <<>> /\ hdrs = <<>> /\ clientIP = <<>>
    /\ refs = <<>> /\ res = <<>> /\ tree = <<>>
    /\ repos = <<>> /\ admin = <<>> /\ last = <<>>

CallGetCommitDiff ==
    /\ output = <<>>
    /\ output' = <<GetCommitDiffOf(input[1])>>
    /\ UNCHANGED <<input, ipVars, gitVars, srvVars>>

NextDiff == CallGetCommitDiff

SpecDiff == InitDiff /\ [][NextDiff]_vars

\* the positions of the files of result d that carry name n
FilesNamed(d, n) == {i \in 1..Len(d.Files) : d.Files[i].Name = n}

\* the files the commit tracks
Tracked(cm) == {p \in DiffPaths : cm.cur[p] # NoBlob}

\* C13 as stated: for a commit without parents ParentHash is empty, every
\* tracked file is reported exactly once, as added, and no deletion is
\* counted for any file or in the totals.
C13_RootCommitAllAdded ==
    (input # <<>> /\ output # <<>> /\ input[1].numParents = 0) =>
        LET d == output[1] IN
        /\ d.ParentHash = <<>>
        /\ \A p \in Tracked(input[1]) :
              /\ Cardinality(FilesNamed(d, p)) = 1
              /\ \A i \in FilesNamed(d, p) : d.Files[i].Status = "added"
        /\ \A i \in 1..Len(d.Files) : d.Files[i].Deletions = 0
        /\ d.Stats.Deletions = 0

\* C13, amended: the same for a commit without parents whose own tree can
\* be read; when the tree cannot be read ParentHash is empty, no file is
\* reported and no deletion is counted.
C13_RootCommitAllAddedWhenTreeLoads ==
    (input # <<>> /\ output # <<>> /\ input[1].numParents = 0) =>
        LET d == output[1] IN
        /\ d.ParentHash = <<>>
        /\ ~input[1].treeErr =>
              \A p \in Tracked(input[1]) :
                 /\ Cardinality(FilesNamed(d, p)) = 1
                 /\ \A i \in FilesNamed(d, p) : d.Files[i].Status = "added"
        /\ input[1].treeErr => d.Files = <<>>
        /\ \A i \in 1..Len(d.Files) : d.Files[i].Deletions = 0
        /\ d.Stats.Deletions = 0

C13_Witness ==
    /\ input # <<>> /\ output # <<>>
    /\ input[1].numParents = 0 /\ ~input[1].treeErr
    /\ Tracked(input[1]) = DiffPaths
    /\ Len(output[1].Files) = 2
    /\ output[1].Files[1].Status = "added"

\* the number of lines of file diff f that carry type t
LinesOfType(f, t) ==
    Cardinality({jk \in (1..4) \X (1..4) :
                    /\ jk[1] <= Len(f.Chunks)
                    /\ jk[2] <= Len(f.Chunks[jk[1]].Lines)
                    /\ f.Chunks[jk[1]].Lines[jk[2]].Type = t})

RECURSIVE TotalOfType(_, _)
TotalOfType(files, t) ==
    IF files = <<>> THEN 0 ELSE LinesOfType(files[1], t) + TotalOfType(Tail(files), t)

\* C14: the addition and deletion counters of every file and of the whole
\* diff equal the numbers of add and delete lines in the chunks that are
\* returned; every returned chunk has lines.
C14_CountersMatchLines ==
    output # <<>> =>
        LET d == output[1] IN
        /\ d.Stats.Additions = TotalOfType(d.Files, "add")
        /\ d.Stats.Deletions = TotalOfType(d.Files, "delete")
        /\ \A i \in 1..Len(d.Files) :
              /\ d.Files[i].Additions = LinesOfType(d.Files[i], "add")
              /\ d.Files[i].Deletions = LinesOfType(d.Files[i], "delete")
              /\ \A j \in 1..Len(d.Files[i].Chunks) : Len(d.Files[i].Chunks[j].Lines) > 0

\* a file that went from two lines to a blank line and one other line
C14_Witness ==
    /\ input # <<>> /\ output # <<>>
    /\ \E i \in 1..Len(output[1].Files) :
          /\ output[1].Files[i].Additions = 1
          /\ output[1].Files[i].Deletions = 2
    /\ output[1].Stats.Additions >= 1

\* the changes GetCommitDiff walks for commit cm
ChangesOf(cm) ==
    DiffTree(IF cm.numParents > 0 /\ ~cm.parentErr /\ ~cm.parentTreeErr
             THEN cm.base ELSE EmptyTree, cm.cur)

\* C15: an insertion is reported as added under the new path, a deletion as
\* deleted under the old path, a modification as renamed (new path as name,
\* old path as old name) when the paths differ and as modified otherwise;
\* only renamed files carry an old name.
C15_StatusByAction ==
    (input # <<>> /\ output # <<>> /\ ~input[1].treeErr) =>
        LET d == output[1]
            ch == ChangesOf(input[1])
        IN /\ Len(d.Files) = Len(ch)
           /\ \A i \in 1..Len(d.Files) :
                 LET f == d.Files[i]
                     c == ch[i]
                 IN /\ (c.From.Name = "" /\ c.To.Name # "") =>
                          f.Status = "added" /\ f.Name = c.To.Name
                    /\ (c.From.Name # "" /\ c.To.Name = "") =>
                          f.Status = "deleted" /\ f.Name = c.From.Name
                    /\ (c.From.Name # "" /\ c.To.Name # "" /\ c.From.Name # c.To.Name) =>
                          f.Status = "renamed" /\ f.Name = c.To.Name /\ f.OldName = c.From.Name
                    /\ (c.From.Name # "" /\ c.To.Name # "" /\ c.From.Name = c.To.Name) =>
                          f.Status = "modified" /\ f.Name = c.To.Name
                    /\ f.Status = "renamed" =>
                          c.From.Name # "" /\ c.To.Name # "" /\ c.From.Name # c.To.Name
                    /\ f.OldName # "" => f.Status = "renamed"

C15_Witness ==
    /\ input # <<>> /\ output # <<>>
    /\ Len(output[1].Files) = 1
    /\ output[1].Files[1].Status = "renamed"
    /\ output[1].Files[1].OldName = "b.txt"
    /\ output[1].Files[1].Name = "x.txt"

\* the changes of commit cm that have a binary blob on either side
BinaryChanges(cm) ==
    {i \in 1..Len(ChangesOf(cm)) :
        IsBinaryBlob(ChangesOf(cm)[i].From.Blob) \/ IsBinaryBlob(ChangesOf(cm)[i].To.Blob)}

\* C23: the files-changed counter equals the number of FileDiffs returned,
\* which is the number of changes with a classifiable action; a change
\* without one leaves the result as it is without that change; a binary
\* change is returned and counted, marked binary, with no chunk and no
\* addition or deletion.
C23_FilesChangedCountsClassified ==
    (input # <<>> /\ output # <<>>) =>
        LET d == output[1]
            cm == input[1]
        IN /\ d.Stats.FilesChanged = Len(d.Files)
           /\ ~cm.treeErr =>
                 /\ Len(d.Files) = Len(SelectSeq(Changes(cm), LAMBDA c : Action(c) # 0))
                 /\ Len(d.Files) = Len(Changes(cm)) - (IF cm.malformed THEN 1 ELSE 0)
                 /\ \A i \in BinaryChanges(cm) :
                       /\ d.Files[i].IsBinary
                       /\ d.Files[i].Name = changeName(ChangesOf(cm)[i])
           /\ d = GetCommitDiffOf([cm EXCEPT !.malformed = FALSE])
           /\ \A i \in 1..Len(d.Files) :
                 /\ d.Files[i].Name # ""
                 /\ d.Files[i].IsBinary =>
                       /\ d.Files[i].Chunks = <<>>
                       /\ d.Files[i].Additions = 0
                       /\ d.Files[i].Deletions = 0

\* a text file and a binary file changed, next to a change without action
C23_Witness ==
    /\ input # <<>> /\ output # <<>>
    /\ input[1].malformed /\ ~input[1].treeErr
    /\ Len(output[1].Files) = 2
    /\ output[1].Stats.FilesChanged = 2
    /\ output[1].Files[1].IsBinary /\ ~output[1].Files[2].IsBinary
    /\ output[1].Stats.Additions > 0

\* the DiffLines of hunk c when every line of its content is kept
LinesOfHunk(c) ==
    [k \in 1..Len(c.Lines) |-> [Type |-> TypeName(c.Type), Content |-> c.Lines[k]]]

\* the number of lines in the hunks of type t of file patch fp
RECURSIVE HunkLinesOfType(_, _)
HunkLinesOfType(chunks, t) ==
    IF chunks = <<>> THEN 0
    ELSE (IF chunks[1].Type = t THEN Len(chunks[1].Lines) ELSE 0)
         + HunkLinesOfType(Tail(chunks), t)

\* C24: for a change that is not binary every hunk of the comparison is
\* returned with exactly its lines, in order, each tagged by the type of
\* the hunk, only the empty piece after the last newline being left out;
\* the add and delete lines of the file are as many as the lines the
\* comparison inserted and removed.
C24_HunkLinesKept ==
    (input # <<>> /\ output # <<>> /\ ~input[1].treeErr) =>
        LET d == output[1]
            ch == ChangesOf(input[1])
        IN \A i \in 1..Len(ch) :
              LET fp == FilePatch(ch[i])
                  f == d.Files[i]
              IN ~fp.IsBinary =>
                    /\ Len(f.Chunks) = Len(fp.Chunks)
                    /\ \A j \in 1..Len(fp.Chunks) : f.Chunks[j].Lines = LinesOfHunk(fp.Chunks[j])
                    /\ f.Additions = HunkLinesOfType(fp.Chunks, 1)
                    /\ f.Deletions = HunkLinesOfType(fp.Chunks, 2)

\* C16: for a commit with a parent whose parent commit or parent tree cannot
\* be read, GetCommitDiff returns the commit alone: no file and all
\* counters zero.
C16_MissingParentMetadataOnly ==
    (input # <<>> /\ output # <<>> /\ input[1].numParents > 0
       /\ (input[1].parentErr \/ input[1].parentTreeErr)) =>
        /\ output[1].Files = <<>>
        /\ output[1].Stats = [FilesChanged |-> 0, Additions |-> 0, Deletions |-> 0]

----------------------------------------------------------------------------
\* SpecURL: ConvertToWebURL on the spellings of one clone URL.

URLHosts == {<<"example.com">>, <<"github.com">>, <<"gitlab.com">>, <<"bitbucket.org">>,
             <<"git.rafayel.dev">>, <<"www.", "github.com">>,
             <<"github.com", ".mirror.example">>}
URLPaths == {<<"repo">>, <<"org", "/", "repo">>, <<"org", "/", "sub", "/", "repo">>}
URLHashes == {HashOf("s1"), HashOf("s2")}

NoResults ==
    [scpGit |-> <<>>, scp |-> <<>>, scpUser |-> <<>>, https |-> <<>>, relative |-> <<>>]

InitURL ==
    /\ input \in {<<[H |-> H, P |-> P, hash |-> h]>> :
                     H \in URLHosts, P \in URLPaths, h \in URLHashes}
    /\ output = NoResults
    /\ lit = <<>> /\ verdict = <<>> /\ hdrs = <<>> /\ clientIP = <<>>
    /\ refs = <<>> /\ res = <<>> /\ tree = <<>>
    /\ repos = <<>> /\ admin = <<>> /\ last = <<>>

\* ConvertToWebURL("git@H:P.git", hash)
ConvertScpGit ==
    /\ output.scpGit = <<>>
    /\ output' = [output EXCEPT !.scpGit =
                     <<ConvertToWebURL(<<"git@">> \o input[1].H \o <<":">> \o input[1].P
                                          \o <<".git">>, input[1].hash)>>]
    /\ UNCHANGED <<input, ipVars, gitVars, srvVars>>

\* ConvertToWebURL("git@H:P", hash)
ConvertScp ==
    /\ output.scp = <<>>
    /\ output' = [output EXCEPT !.scp =
                     <<ConvertToWebURL(<<"git@">> \o input[1].H \o <<":">> \o input[1].P,
                                       input[1].hash)>>]
    /\ UNCHANGED <<input, ipVars, gitVars, srvVars>>

\* ConvertToWebURL("https://H/P.git", hash)
ConvertHttps ==
    /\ output.https = <<>>
    /\ output' = [output EXCEPT !.https =
                     <<ConvertToWebURL(<<"https://">> \o input[1].H \o <<"/">> \o input[1].P
                                          \o <<".git">>, input[1].hash)>>]
    /\ UNCHANGED <<input, ipVars, gitVars, srvVars>>

\* ConvertToWebURL("../P", hash): a relative clone URL
ConvertRelative ==
    /\ output.relative = <<>>
    /\ output' = [output EXCEPT !.relative =
                     <<ConvertToWebURL(<<"..", "/">> \o input[1].P, input[1].hash)>>]
    /\ UNCHANGED <<input, ipVars, gitVars, srvVars>>

\* ConvertToWebURL("alice@H:P.git", hash): the SCP-style form with another user
ConvertScpUser ==
    /\ output.scpUser = <<>>
    /\ output' = [output EXCEPT !.scpUser =
                     <<ConvertToWebURL(<<"alice@">> \o input[1].H \o <<":">> \o input[1].P
                                          \o <<".git">>, input[1].hash)>>]
    /\ UNCHANGED <<input, ipVars, gitVars, srvVars>>

NextURL == ConvertScpGit \/ ConvertScp \/ ConvertScpUser \/ ConvertHttps \/ ConvertRelative

SpecURL == InitURL /\ [][NextURL]_vars

----------------------------------------------------------------------------
\* SpecSubmodule: GetSubmoduleInfo on one repository, reference and path.

\* c4 is a commit whose .gitmodules does not parse
SubmoduleCommits == CommitIds \cup {"c4"}

SubmoduleRepos ==
    {[branches |-> [b \in BranchNames |-> IF b = HeadBranch THEN m ELSE NoRef],
      tags |-> [t \in TagNames |-> v],
      objects |-> SubmoduleCommits] :
        m \in SubmoduleCommits \cup {NoRef}, v \in {NoRef, "c1", "t1"}}

SubmoduleRefs == {"main", "v1", "c2", "nope"}

\* the requested paths, as written and as the fields they name
SubmodulePaths ==
    {[path |-> <<"c">>, fields |-> <<"c">>],
     [path |-> <<"/", "c", "/">>, fields |-> <<"c">>],
     [path |-> <<"a", "/", "e">>, fields |-> <<"a", "e">>],
     [path |-> <<"d">>, fields |-> <<"d">>],
     [path |-> <<"b.txt">>, fields |-> <<"b.txt">>],
     [path |-> <<"a">>, fields |-> <<"a">>],
     [path |-> <<"e">>, fields |-> <<"e">>]}

SubmoduleCalls ==
    {[r |-> r, ref |-> ref, path |-> p.path, fields |-> p.fields] :
        r \in SubmoduleRepos, ref \in SubmoduleRefs, p \in SubmodulePaths}

InitSubmodule ==
    /\ input \in {<<c>> : c \in SubmoduleCalls}
    /\ output = <<>>
    /\ lit = <<>> /\ verdict = <<>> /\ hdrs = <<>> /\ clientIP = <<>>
    /\ refs = <<>> /\ res = <<>> /\ tree = <<>>
    /\ repos = <<>> /\ admin = <<>> /\ last = <<>>

CallGetSubmoduleInfo ==
    /\ output = <<>>
    /\ output' = <<GetSubmoduleInfo(input[1].r, input[1].ref, input[1].path)>>
    /\ UNCHANGED <<input, ipVars, gitVars, srvVars>>

NextSubmodule == CallGetSubmoduleInfo

SpecSubmodule == InitSubmodule /\ [][NextSubmodule]_vars

\* the modules the .gitmodules file of commit c configures; none when the
\* file is absent or does not parse
ConfiguredModules(c) ==
    LET g == {e \in Snapshot(c) : e.path = <<".gitmodules">> /\ e.kind = "file"}
    IN IF g = {} THEN {}
       ELSE LET u == Unmarshal((CHOOSE e \in g : TRUE).content)
            IN IF u.ok THEN u.mods ELSE {}

\* C17: GetSubmoduleInfo fails iff the revision cannot be loaded, the path
\* is absent or its entry is not a submodule, whatever .gitmodules holds;
\* the status is configured iff .gitmodules has an entry for the path, and
\* then name, URL, branch and web URL come from that entry, and it is
\* missing-config otherwise; path, hash and short hash come from the tree entry.
C17_SubmoduleInfo ==
    (input # <<>> /\ output # <<>>) =>
        LET in == input[1]
            o == output[1]
            rev == resolveRef(in.r, in.ref)
            loaded == rev.ok /\ rev.hash \in in.r.objects
            E == IF loaded THEN {e \in Snapshot(rev.hash) : e.path = in.fields} ELSE {}
            S == {e \in E : e.kind = "submodule"}
        IN /\ ~o.ok <=> S = {}
           /\ o.ok =>
                LET e == CHOOSE x \in S : TRUE
                    M == {m \in ConfiguredModules(rev.hash) : m.Path = in.fields}
                IN /\ o.info.Path = in.fields
                   /\ o.info.Hash = <<e.hash, "rest">>
                   /\ o.info.ShortHash = <<e.hash>>
                   /\ o.info.Status = "configured" <=> M # {}
                   /\ o.info.Status \in {"configured", "missing-config"}
                   /\ M # {} =>
                        \E m \in M :
                           /\ o.info.Name = m.Name
                           /\ o.info.URL = m.URL
                           /\ o.info.Branch = m.Branch
                           /\ o.info.WebURL = ConvertToWebURL(m.URL, o.info.Hash)

\* submodule c of commit c1, which .gitmodules configures
C17_Witness ==
    /\ input # <<>> /\ output # <<>>
    /\ input[1].fields = <<"c">>
    /\ output[1].ok
    /\ output[1].info.Status = "configured"
    /\ output[1].info.Name = "libc"
    /\ output[1].info.WebURL =
          <<"https://", "github.com", "/", "org", "/", "libc", "/", "tree", "/", "s-c1", "rest">>

----------------------------------------------------------------------------
\* the handlers whose failures the error mapping is about
MappedHandlers == ContentHandlers \cup {"handleRepo"}

\* C19: on an existing repository a denied request is answered 403; a
\* granted repository or tree request on a repository without any resolvable
\* reference is answered with the empty-repository page; a granted request
\* for a path, file, commit or submodule the repository does not hold is
\* answered 404.
C19_ErrorMapping ==
    (last.handler \in MappedHandlers /\ repos[last.req.repo].exists) =>
        LET g == repos[last.req.repo].git
            granted == repos[last.req.repo].public \/ last.req.caller.trusted
            unresolvable == RepoHead(g) = NoRef /\ NoBranches(g)
        IN /\ ~granted => last.status = 403
           /\ (granted /\ unresolvable /\ last.handler \in {"handleRepo", "handleTree"}) =>
                 last.status = 200 /\ last.page = <<"empty">>
           /\ (granted /\ ~unresolvable
                 /\ last.handler \in {"handleTree", "handleBlob", "handleSubmodule", "handleCommit"}
                 /\ ~ContentExists(last.handler, last.req)) =>
                 last.status = 404

----------------------------------------------------------------------------
\* the handlers that only read
ReadHandlers ==
    ContentHandlers \cup {"handleIndex", "handleRepo", "handleNewRepo", "handleRepoSettings"}

\* what the verdict is said to depend on, of the request
Triple(c) == <<c.xRealIP, c.xff, c.peer>>

\* C20: two content requests for the same repository, made one after the
\* other with the same X-Real-IP, X-Forwarded-For and peer address while the
\* visibility marker stays as it is, are both denied or both granted; and a
\* read handler leaves the repositories and the server's files as they were.
C20_VerdictOfTripleAndMarker ==
    [][ /\ (/\ last.handler \in ContentHandlers
            /\ last'.handler \in ContentHandlers
            /\ last.req.repo = last'.req.repo
            /\ repos[last.req.repo].exists
            /\ repos' = repos
            /\ Triple(last.req.caller) = Triple(last'.req.caller))
           => ((last.status = 403) <=> (last'.status = 403))
        /\ last'.handler \in ReadHandlers => (repos' = repos /\ admin' = admin)
      ]_vars

----------------------------------------------------------------------------
\* SpecClean: cleanIPString on one literal, and on its own result.

\* the literals: an address or junk text as it stands, with a port, in
\* brackets, in brackets with a port, and with an opening bracket only
CleanInputs ==
    {[lit |-> Wrap(x, f).text, inner |-> x.text, kind |-> x.kind, form |-> f] :
        x \in V4Addresses \cup V6Addresses \cup JunkTexts,
        f \in {"bare", "port", "bracket", "bracketport"}}
    \cup {[lit |-> <<"[">> \o x.text, inner |-> x.text, kind |-> x.kind, form |-> "open"] :
        x \in V6Addresses}

InitClean ==
    /\ input \in {<<l>> : l \in CleanInputs}
    /\ output = <<>>
    /\ lit = <<>> /\ verdict = <<>> /\ hdrs = <<>> /\ clientIP = <<>>
    /\ refs = <<>> /\ res = <<>> /\ tree = <<>>
    /\ repos = <<>> /\ admin = <<>> /\ last = <<>>

\* cleanIPString(lit)
CleanLiteral ==
    /\ output = <<>>
    /\ output' = <<cleanIPString(input[1].lit)>>
    /\ UNCHANGED <<input, ipVars, gitVars, srvVars>>

\* cleanIPString of the result of the first call
CleanAgain ==
    /\ Len(output) = 1
    /\ output' = Append(output, cleanIPString(output[1]))
    /\ UNCHANGED <<input, ipVars, gitVars, srvVars>>

NextClean == CleanLiteral \/ CleanAgain

SpecClean == InitClean /\ [][NextClean]_vars

\* the number of colons in a text, counted from the front
RECURSIVE Colons(_)
Colons(t) == IF t = <<>> THEN 0 ELSE (IF t[1] = ":" THEN 1 ELSE 0) + Colons(Tail(t))

\* the text before the first colon
RECURSIVE BeforeColon(_)
BeforeColon(t) == IF t = <<>> \/ t[1] = ":" THEN <<>> ELSE <<t[1]>> \o BeforeColon(Tail(t))

\* an address written in one of the forms that carry an address
WellFormed(l) ==
    \/ l.kind = "v4" /\ l.form \in {"bare", "port"}
    \/ l.kind = "v6" /\ l.form \in {"bare", "bracket", "bracketport"}

\* C21: [x]:p and [x] are cleaned to x; a literal without bracket and with
\* exactly one colon is cut at the colon; a literal without colon, or
\* without bracket and with two or more colons, is returned as it is; and
\* cleaning the result of a well-formed literal again changes nothing.
C21_CleanIPString ==
    (input # <<>> /\ output # <<>>) =>
        LET l == input[1]
            o == output[1]
        IN /\ l.form \in {"bracket", "bracketport"} => o = l.inner
           /\ (l.form \in {"bare", "port"} /\ Colons(l.lit) = 1) => o = BeforeColon(l.lit)
           /\ (l.form \in {"bare", "port"} /\ Colons(l.lit) # 1) => o = l.lit
           /\ (Len(output) = 2 /\ WellFormed(l)) => output[2] = o

\* a bracketed IPv6 address with a port, cleaned twice
C21_Witness ==
    /\ input # <<>> /\ Len(output) = 2
    /\ input[1].lit = <<"[", ":", ":", "1", "]", ":", "80">>
    /\ output[1] = <<":", ":", "1">>
    /\ output[2] = <<":", ":", "1">>

----------------------------------------------------------------------------
\* SpecPath: GetTree and GetBlob on one commit and one path.

PathCommits == {"c1", "c2", "c3", "c4", "c5"}

\* the requested paths, as written and as the fields they name
RequestPaths ==
    {[path |-> <<"a">>, fields |-> <<"a">>],
     [path |-> <<"/", "a", "/">>, fields |-> <<"a">>],
     [path |-> <<"a", "/", "x.txt">>, fields |-> <<"a", "x.txt">>],
     [path |-> <<"a", "/", "e">>, fields |-> <<"a", "e">>],
     [path |-> <<"a", "/", "d">>, fields |-> <<"a", "d">>],
     [path |-> <<"b.txt">>, fields |-> <<"b.txt">>],
     [path |-> <<"b.txt", "/", "x.txt">>, fields |-> <<"b.txt", "x.txt">>],
     [path |-> <<"c">>, fields |-> <<"c">>],
     [path |-> <<"c", "/", "x.txt">>, fields |-> <<"c", "x.txt">>],
     [path |-> <<"link">>, fields |-> <<"link">>],
     [path |-> <<"README.md">>, fields |-> <<"README.md">>],
     [path |-> <<"/", "README.md">>, fields |-> <<"README.md">>],
     [path |-> <<"e">>, fields |-> <<"e">>]}

NoCalls == [tree |-> <<>>, blob |-> <<>>]

InitPath ==
    /\ input \in {<<[c |-> c, path |-> p.path, fields |-> p.fields]>> :
                     c \in PathCommits, p \in RequestPaths}
    /\ output = NoCalls
    /\ lit = <<>> /\ verdict = <<>> /\ hdrs = <<>> /\ clientIP = <<>>
    /\ refs = <<>> /\ res = <<>> /\ tree = <<>>
    /\ repos = <<>> /\ admin = <<>> /\ last = <<>>

\* GetTree on the commit and the path
CallGetTree ==
    /\ output.tree = <<>>
    /\ output' = [output EXCEPT !.tree = <<GetTreeAt(input[1].c, input[1].path)>>]
    /\ UNCHANGED <<input, ipVars, gitVars, srvVars>>

\* GetBlob on the commit and the path
CallGetBlob ==
    /\ output.blob = <<>>
    /\ output' = [output EXCEPT !.blob = <<GetBlobAt(input[1].c, input[1].path)>>]
    /\ UNCHANGED <<input, ipVars, gitVars, srvVars>>

NextPath == CallGetTree \/ CallGetBlob

SpecPath == InitPath /\ [][NextPath]_vars

\* the kinds of entry the commit holds at the path: none when a segment is
\* absent or a segment before the last is not a directory
KindsAt(c, fields) == {e.kind : e \in {x \in Snapshot(c) : x.path = fields}}

\* what C22 says of the two calls, with the kinds of entry GetBlob reads
PathCallsAgree(readable) ==
    LET K == KindsAt(input[1].c, input[1].fields) IN
    /\ output.tree # <<>> =>
          /\ output.tree[1].ok <=> K = {"dir"}
          /\ ~output.tree[1].ok => output.tree[1].entries = <<>>
    /\ output.blob # <<>> =>
          /\ output.blob[1].ok <=> (K # {} /\ K \subseteq readable)
          /\ ~output.blob[1].ok => output.blob[1].content = ""
    /\ (output.tree # <<>> /\ output.blob # <<>>) =>
          ~(output.tree[1].ok /\ output.blob[1].ok)

\* C22 as stated: GetTree succeeds iff the path names a directory; GetBlob
\* succeeds iff the path names a regular file; the two never both succeed,
\* and a failed call returns nothing.
C22_TreeXorBlob == PathCallsAgree({"file"})

\* C22, amended: the same, with GetBlob succeeding iff the path names an
\* entry that holds a blob, which is a regular file or a symbolic link.
C22_TreeXorBlobOfBlobEntries == PathCallsAgree({"file", "symlink"})

\* a directory listed and refused as a file
C22_Witness ==
    /\ input[1].fields = <<"a">>
    /\ output.tree # <<>> /\ output.blob # <<>>
    /\ output.tree[1].ok /\ ~output.blob[1].ok

----------------------------------------------------------------------------
\* SpecForPath: GetSubmodulesForPath on one listing, then GetSubmoduleInfo
\* on the full path of each record it returned.

\* c4 has a .gitmodules that does not parse, c6 one with two sections for
\* the path c
ForPathCommits == CommitIds \cup {"c4", "c6"}

ForPathRepos ==
    {[branches |-> [b \in BranchNames |-> IF b = HeadBranch THEN m ELSE NoRef],
      tags |-> [t \in TagNames |-> NoRef],
      objects |-> ForPathCommits] : m \in ForPathCommits \cup {NoRef}}

ForPathRefs == {"main", "HEAD", "c1"}

\* the listing paths, as written and as the fields they name
ForPathPaths ==
    {[path |-> <<>>, fields |-> <<>>],
     [path |-> <<"/">>, fields |-> <<>>],
     [path |-> <<"a">>, fields |-> <<"a">>],
     [path |-> <<"/", "a", "/">>, fields |-> <<"a">>],
     [path |-> <<"b.txt">>, fields |-> <<"b.txt">>]}

\* the maps ParseGitmodules can return for the modules u of the file: the
\* loop over modules.Submodules, a Go map, runs in an order that differs
\* from call to call, and the section it meets last for a path is the one
\* the result keeps
GitmodulesMaps(u) ==
    IF ~u.ok THEN {u}
    ELSE {[ok |-> TRUE, mods |-> S] :
            S \in {T \in SUBSET u.mods :
                      \A m \in u.mods : Cardinality({x \in T : x.Path = m.Path}) = 1}}

\* the SubmoduleInfo GetSubmodulesForPath builds for one submodule entry
SubmoduleInfoOf(entry, fullPath, gitmodules) ==
    LET i == MakeSubmoduleInfo(entry, fullPath, gitmodules)
    IN [Path |-> i.Path, Name |-> i.Name,
        Hash |-> HashOf(i.Hash), ShortHash |-> ShortHash(HashOf(i.Hash)),
        Status |-> i.Status, URL |-> i.URL, Branch |-> i.Branch,
        WebURL |-> IF i.Status = "configured"
                   THEN ConvertToWebURL(i.URL, HashOf(i.Hash)) ELSE <<>>]

\* GetSubmodulesForPath when ParseGitmodules returns gm: the map, as the
\* set of its keys with their records
GetSubmodulesForPathWith(r, ref, path, gm) ==
    LET t == GetTree(r, ref, path)
    IN IF ~t.ok THEN [ok |-> FALSE, subs |-> {}]
       ELSE [ok |-> TRUE,
             subs |-> {[key |-> t.entries[i].Name,
                        info |-> SubmoduleInfoOf(t.entries[i],
                                                 JoinPath(path, t.entries[i].Name), gm)] :
                          i \in {j \in 1..Len(t.entries) : t.entries[j].IsSubmodule}}]

NoListing == [list |-> <<>>, single |-> {}]

InitForPath ==
    /\ input \in {<<[r |-> r, ref |-> ref, path |-> p.path, fields |-> p.fields]>> :
                     r \in ForPathRepos, ref \in ForPathRefs, p \in ForPathPaths}
    /\ output = NoListing
    /\ lit = <<>> /\ verdict = <<>> /\ hdrs = <<>> /\ clientIP = <<>>
    /\ refs = <<>> /\ res = <<>> /\ tree = <<>>
    /\ repos = <<>> /\ admin = <<>> /\ last = <<>>

CallGetSubmodulesForPath ==
    /\ output.list = <<>>
    /\ \E gm \in GitmodulesMaps(ParseGitmodules(input[1].r, input[1].ref)) :
          output' = [output EXCEPT !.list =
                        <<GetSubmodulesForPathWith(input[1].r, input[1].ref, input[1].path, gm)>>]
    /\ UNCHANGED <<input, ipVars, gitVars, srvVars>>

\* GetSubmoduleInfo on the full path of one returned record
CallGetSubmoduleInfoOfRecord ==
    /\ output.list # <<>>
    /\ \E s \in output.list[1].subs :
          /\ \A q \in output.single : q.key # s.key
          /\ \E gm \in GitmodulesMaps(ParseGitmodules(input[1].r, input[1].ref)) :
                output' = [output EXCEPT !.single = @ \cup
                              {[key |-> s.key,
                                res |-> GetSubmoduleInfoWith(input[1].r, input[1].ref,
                                            JoinPathTokens(input[1].path, s.key), gm)]}]
    /\ UNCHANGED <<input, ipVars, gitVars, srvVars>>

NextForPath == CallGetSubmodulesForPath \/ CallGetSubmoduleInfoOfRecord

SpecForPath == InitForPath /\ [][NextForPath]_vars

\* the names of the submodule entries right under the listing path
SubmoduleNamesAt(c, fields) ==
    {e.path[Len(e.path)] :
        e \in {x \in Snapshot(c) : /\ x.kind = "submodule"
                                   /\ Len(x.path) = Len(fields) + 1
                                   /\ SubSeq(x.path, 1, Len(fields)) = fields}}

\* every record of the listing is for a submodule entry of the listing, one
\* per entry, under the entry's name and with the joined path
RecordsPerEntry ==
    (input # <<>> /\ output.list # <<>> /\ output.list[1].ok) =>
        LET in == input[1]
            subs == output.list[1].subs
            c == resolveRef(in.r, in.ref).hash
        IN /\ {s.key : s \in subs} = SubmoduleNamesAt(c, in.fields)
           /\ \A s, t \in subs : s.key = t.key => s = t
           /\ \A s \in subs : s.info.Path = in.fields \o <<s.key>>

\* every GetSubmoduleInfo on a record's full path succeeded with that record
SingleEqualsRecord ==
    \A q \in output.single :
       \E s \in output.list[1].subs :
          /\ s.key = q.key
          /\ q.res.ok
          /\ q.res.info = s.info

\* C25: GetSubmodulesForPath returns one record for each submodule entry of
\* the listing and none for any other entry, under the entry's name, with
\* the listing path joined with the name as Path; GetSubmoduleInfo on that
\* path, on the same repository, returns the same record field by field.
C25_ListingEqualsSingle ==
    input # <<>> => (RecordsPerEntry /\ SingleEqualsRecord)

----------------------------------------------------------------------------
\* Properties of the web link of a clone URL (SpecURL).

\* the hosts with a template of their own
ServiceHosts == {<<"github.com">>, <<"gitlab.com">>, <<"bitbucket.org">>}
InternalHost == <<"git.rafayel.dev">>

\* the link C26 describes for host H, path P and the hash
LinkByHost(H, P, hash) ==
    CASE H = <<"github.com">> -> <<"https://", "github.com", "/">> \o P \o <<"/", "tree", "/">> \o hash
      [] H = <<"gitlab.com">> ->
             <<"https://", "gitlab.com", "/">> \o P \o <<"/", "-", "/", "tree", "/">> \o hash
      [] H = <<"bitbucket.org">> ->
             <<"https://", "bitbucket.org", "/">> \o P \o <<"/", "src", "/">> \o hash
      [] H = InternalHost -> <<"/">> \o LastPart(P) \o <<"/", "tree", "/">> \o hash \o <<"/">>
      [] OTHER -> <<"https://">> \o H \o <<"/">> \o P

\* C26: a clone URL on github.com, gitlab.com or bitbucket.org gives the
\* tree link of that service, one on the internal host the relative link
\* of the last path segment, one on any other host the generic link
\* https://<host>/<path> on that same host; a clone URL of neither shape is
\* returned as it is.
C26_TemplateByRecognizedHost ==
    LET in == input[1] IN
    /\ output.scpGit # <<>> => output.scpGit[1] = LinkByHost(in.H, in.P, in.hash)
    /\ output.https # <<>> => output.https[1] = LinkByHost(in.H, in.P, in.hash)
    /\ (output.https # <<>> /\ in.H \notin ServiceHosts \cup {InternalHost}) =>
          SubSeq(output.https[1], 1, Len(in.H) + 1) = <<"https://">> \o in.H
    /\ output.relative # <<>> => output.relative[1] = <<"..", "/">> \o in.P

\* C27: alice@H:P.git is converted as https://H/P.git is, to the link the
\* templates give for host H and path P.
C27_AnyUserScp ==
    LET in == input[1] IN
    output.scpUser # <<>> =>
        /\ output.scpUser[1] = formatWebURL(in.H, in.P, in.hash)
        /\ output.https # <<>> => output.scpUser[1] = output.https[1]

----------------------------------------------------------------------------
\* SpecRace: one GET /{repo}/blob/{ref}/* and one POST /{repo}/settings on
\* the same repository, each handler advancing from one access of the
\* repository's files to the next.

RaceRepo == "alpha"

RaceRequests ==
    {[blob |-> b, post |-> p] :
        b \in {x \in BlobRequests : x.repo = RaceRepo},
        p \in {x \in SettingsRequests : x.repo = RaceRepo}}

\* the two handlers before their first step
IdleHandlers ==
    [blob |-> [pc |-> "gate", status |-> 0, gate |-> <<>>, content |-> <<>>,
               shown |-> <<>>, publicAtRead |-> <<>>, postDone |-> <<>>],
     post |-> [pc |-> "check", status |-> 0]]

InitRace ==
    /\ \E public \in BOOLEAN :
           repos = [n \in RepoNames |-> IF n = RaceRepo THEN PushedRepo(public) ELSE NoRepo]
    /\ input \in {<<q>> : q \in RaceRequests}
    /\ output = IdleHandlers
    /\ lit = <<>> /\ verdict = <<>> /\ hdrs = <<>> /\ clientIP = <<>>
    /\ refs = <<>> /\ res = <<>> /\ tree = <<>>
    /\ admin = <<>> /\ last = <<>>

\* handleBlob up to the access check: RepoExists, IsPublicRepo, isTailnetRequest
handleBlob_Gate ==
    LET r == input[1].blob IN
    /\ output.blob.pc = "gate"
    /\ output' = [output EXCEPT !.blob =
           IF ~RepoExists(r.repo) THEN [@ EXCEPT !.pc = "done", !.status = 404]
           ELSE IF ~IsPublicRepo(r.repo) /\ ~isTailnetRequest(r.caller)
           THEN [@ EXCEPT !.pc = "done", !.status = 403,
                          !.gate = <<IsPublicRepo(r.repo)>>]
           ELSE [@ EXCEPT !.pc = "read", !.gate = <<IsPublicRepo(r.repo)>>]]
    /\ UNCHANGED <<input, repos, admin, last, ipVars, gitVars>>

\* handleBlob: GetBlob; publicAtRead notes whether the marker is there now
handleBlob_GetBlob ==
    LET r == input[1].blob
        b == GetBlob(PlainOpen(r.repo), r.ref, r.path)
    IN /\ output.blob.pc = "read"
       /\ output' = [output EXCEPT !.blob =
              IF ~b.ok THEN [@ EXCEPT !.pc = "done", !.status = 404]
              ELSE [@ EXCEPT !.pc = "render", !.content = <<b.content>>,
                             !.publicAtRead = <<IsPublicRepo(r.repo)>>]]
       /\ UNCHANGED <<input, repos, admin, last, ipVars, gitVars>>

\* handleBlob: the template data, with IsPublicRepo read again, and the
\* response; postDone notes whether the settings request is answered by now
handleBlob_Render ==
    LET r == input[1].blob IN
    /\ output.blob.pc = "render"
    /\ output' = [output EXCEPT !.blob =
           [@ EXCEPT !.pc = "done", !.status = 200,
                     !.shown = <<IsPublicRepo(r.repo)>>,
                     !.postDone = <<output.post.pc = "done" /\ output.post.status = 302>>]]
    /\ UNCHANGED <<input, repos, admin, last, ipVars, gitVars>>

\* handleRepoSettingsPost up to ParseForm
handleRepoSettingsPost_Check ==
    LET r == input[1].post IN
    /\ output.post.pc = "check"
    /\ output' = [output EXCEPT !.post =
           IF ~isTailnetRequest(r.caller) THEN [pc |-> "done", status |-> 403]
           ELSE IF ~RepoExists(r.repo) THEN [pc |-> "done", status |-> 404]
           ELSE IF ~r.form.formOK THEN [pc |-> "done", status |-> 400]
           ELSE [pc |-> "description", status |-> 0]]
    /\ UNCHANGED <<input, repos, admin, last, ipVars, gitVars>>

\* handleRepoSettingsPost: the description file is written
handleRepoSettingsPost_Description ==
    LET r == input[1].post IN
    /\ output.post.pc = "description"
    /\ repos' = [repos EXCEPT ![r.repo].description = FileOf(TrimSpace(r.form.description))]
    /\ output' = [output EXCEPT !.post.pc = "visibility"]
    /\ UNCHANGED <<input, admin, last, ipVars, gitVars>>

\* handleRepoSettingsPost: the marker is written or removed
handleRepoSettingsPost_Visibility ==
    LET r == input[1].post IN
    /\ output.post.pc = "visibility"
    /\ repos' = [repos EXCEPT ![r.repo].public = (r.form.visibility = "public")]
    /\ output' = [output EXCEPT !.post.pc = "configs"]
    /\ UNCHANGED <<input, admin, last, ipVars, gitVars>>

\* handleRepoSettingsPost: the pages and mirror files, then the redirect
handleRepoSettingsPost_Configs ==
    LET r == input[1].post
        f == r.form
        mirrorEnabled == f.mirror_enabled = "on"
        mirrorURL == TrimSpace(f.mirror_url)
    IN /\ output.post.pc = "configs"
       /\ repos' = [repos EXCEPT ![r.repo] =
              [@ EXCEPT
                 !.pages = FileOf(
                     [enabled |-> f.pages_enabled = "on",
                      branch |-> IF f.pages_branch = "" THEN "main" ELSE f.pages_branch,
                      build_command |-> f.pages_build_cmd,
                      output_dir |-> IF f.pages_output_dir = "" THEN "public"
                                     ELSE f.pages_output_dir]),
                 !.mirror = IF mirrorEnabled /\ mirrorURL # <<>>
                            THEN FileOf([enabled |-> TRUE, github_url |-> mirrorURL])
                            ELSE IF ~mirrorEnabled
                            THEN FileOf([enabled |-> FALSE, github_url |-> mirrorURL])
                            ELSE @]]
       /\ output' = [output EXCEPT !.post = [pc |-> "done", status |-> 302]]
       /\ UNCHANGED <<input, admin, last, ipVars, gitVars>>

NextRace ==
    \/ handleBlob_Gate
    \/ handleBlob_GetBlob
    \/ handleBlob_Render
    \/ handleRepoSettingsPost_Check
    \/ handleRepoSettingsPost_Description
    \/ handleRepoSettingsPost_Visibility
    \/ handleRepoSettingsPost_Configs

SpecRace == InitRace /\ [][NextRace]_vars

\* C28: a caller outside the tailnet who is sent a file had the repository
\* public when the file was read, is not answered after a settings request
\* that made the repository private was answered, and is shown the IsPublic
\* value the access check saw.
C28_ContentOnlyWhilePublic ==
    (/\ input # <<>>
     /\ output.blob.status = 200
     /\ ~isTailnetRequest(input[1].blob.caller)) =>
        /\ output.blob.publicAtRead = <<TRUE>>
        /\ ~(output.blob.postDone = <<TRUE>> /\ input[1].post.form.visibility # "public")
        /\ output.blob.shown = output.blob.gate

----------------------------------------------------------------------------
\* SpecCreate: two POST /new requests at the same time, each handler
\* advancing from one access of the repositories directory to the next.

Creators == {"a", "b"}

\* the creation forms, with one that asks for a private beta
CreationForms ==
    NewRepoForms \cup
    { [formOK |-> TRUE, name |-> <<"beta">>, description |-> <<"d2">>,
       visibility |-> "private"] }

CreationRequests == {[caller |-> c, form |-> f] : c \in Requesters, f \in CreationForms}

IdleCreator == [pc |-> "check", status |-> 0, wrote |-> FALSE]

\* heads: the repositories that have a HEAD file
InitCreate ==
    /\ \E public \in BOOLEAN :
          /\ repos = [n \in RepoNames |-> IF n = "alpha" THEN PushedRepo(public) ELSE NoRepo]
          /\ input \in {<<[a |-> x, b |-> y, public |-> public]>> :
                           x \in CreationRequests, y \in CreationRequests}
    /\ output = [a |-> IdleCreator, b |-> IdleCreator, heads |-> {"alpha"}]
    /\ lit = <<>> /\ verdict = <<>> /\ hdrs = <<>> /\ clientIP = <<>>
    /\ refs = <<>> /\ res = <<>> /\ tree = <<>>
    /\ admin = <<>> /\ last = <<>>

\* the repository name a creation request asks for
RepoNameOf(r) == TrimSpace(r.form.name)

\* handleNewRepoPost up to RepoExists
handleNewRepoPost_Check(i) ==
    LET r == input[1][i] IN
    /\ output[i].pc = "check"
    /\ output' = [output EXCEPT ![i] =
           IF ~isTailnetRequest(r.caller) THEN [@ EXCEPT !.pc = "done", !.status = 403]
           ELSE IF ~r.form.formOK THEN [@ EXCEPT !.pc = "done", !.status = 400]
           ELSE IF RepoNameOf(r) = <<>> THEN [@ EXCEPT !.pc = "done", !.status = 400]
           ELSE IF ~ValidRepoName(RepoNameOf(r)) THEN [@ EXCEPT !.pc = "done", !.status = 400]
           ELSE IF RepoExists(RepoNameOf(r)[1]) THEN [@ EXCEPT !.pc = "done", !.status = 409]
           ELSE [@ EXCEPT !.pc = "init"]]
    /\ UNCHANGED <<input, repos, admin, last, ipVars, gitVars>>

\* CreateBareRepo, git.PlainInit: the directories of the repository are
\* made, which leaves directories that are there as they are
handleNewRepoPost_InitStorer(i) ==
    LET n == RepoNameOf(input[1][i])[1] IN
    /\ output[i].pc = "init"
    /\ \E initOK \in BOOLEAN :
          IF ~initOK
          THEN /\ output' = [output EXCEPT ![i] = [@ EXCEPT !.pc = "done", !.status = 500]]
               /\ UNCHANGED repos
          ELSE /\ repos' = IF repos[n].exists THEN repos ELSE [repos EXCEPT ![n] = EmptyRepo]
               /\ output' = [output EXCEPT ![i] = [@ EXCEPT !.pc = "head", !.wrote = TRUE]]
    /\ UNCHANGED <<input, admin, last, ipVars, gitVars>>

\* git.PlainInit: a repository that has a HEAD is refused
handleNewRepoPost_CheckHead(i) ==
    LET n == RepoNameOf(input[1][i])[1] IN
    /\ output[i].pc = "head"
    /\ output' = [output EXCEPT ![i] =
           IF n \in output.heads THEN [@ EXCEPT !.pc = "done", !.status = 500]
           ELSE [@ EXCEPT !.pc = "sethead"]]
    /\ UNCHANGED <<input, repos, admin, last, ipVars, gitVars>>

\* git.PlainInit: HEAD and the configuration are written
handleNewRepoPost_SetHead(i) ==
    LET n == RepoNameOf(input[1][i])[1] IN
    /\ output[i].pc = "sethead"
    /\ output' = [output EXCEPT ![i] = [@ EXCEPT !.pc = "description"],
                                !.heads = @ \cup {n}]
    /\ UNCHANGED <<input, repos, admin, last, ipVars, gitVars>>

\* handleNewRepoPost: the description file, when one was given
handleNewRepoPost_Description(i) ==
    LET r == input[1][i]
        n == RepoNameOf(r)[1]
        description == TrimSpace(r.form.description)
    IN /\ output[i].pc = "description"
       /\ repos' = IF description # <<>>
                   THEN [repos EXCEPT ![n].description = FileOf(description)]
                   ELSE repos
       /\ output' = [output EXCEPT ![i] = [@ EXCEPT !.pc = "visibility"]]
       /\ UNCHANGED <<input, admin, last, ipVars, gitVars>>

\* handleNewRepoPost: the marker, when the form asks for public; the redirect
handleNewRepoPost_Visibility(i) ==
    LET r == input[1][i]
        n == RepoNameOf(r)[1]
    IN /\ output[i].pc = "visibility"
       /\ repos' = IF r.form.visibility = "public"
                   THEN [repos EXCEPT ![n].public = TRUE]
                   ELSE repos
       /\ output' = [output EXCEPT ![i] = [@ EXCEPT !.pc = "done", !.status = 302]]
       /\ UNCHANGED <<input, admin, last, ipVars, gitVars>>

NextCreate ==
    \E i \in Creators :
       \/ handleNewRepoPost_Check(i)
       \/ handleNewRepoPost_InitStorer(i)
       \/ handleNewRepoPost_CheckHead(i)
       \/ handleNewRepoPost_SetHead(i)
       \/ handleNewRepoPost_Description(i)
       \/ handleNewRepoPost_Visibility(i)

SpecCreate == InitCreate /\ [][NextCreate]_vars

\* the creator got past git.PlainInit: the repository is one it created
Created(i) ==
    \/ output[i].pc \in {"description", "visibility"}
    \/ output[i].pc = "done" /\ output[i].status = 302

\* C29: a repository that a request created with a visibility other than
\* public has no marker, while the request runs and afterwards; a request
\* refused with 403, 400 or 409 has written nothing, and the repository
\* that was there before keeps its description and its marker, also with
\* two requests for one name under way.
C29_CreatedPrivateStaysPrivate ==
    input # <<>> =>
        /\ \A i \in Creators :
              (Created(i) /\ input[1][i].form.visibility # "public") =>
                  ~repos[RepoNameOf(input[1][i])[1]].public
        /\ \A i \in Creators :
              output[i].status \in {403, 400, 409} => ~output[i].wrote
        /\ repos["alpha"] = PushedRepo(input[1].public)

----------------------------------------------------------------------------
\* SpecLanding: GET /{repo}, then the GET of the address it redirects to.

\* the states of alpha's references: each branch absent or at a commit; HEAD
\* names the branch main
LandingRepos ==
    {[PushedRepo(public) EXCEPT
        !.git = [branches |-> [b \in BranchNames |-> IF b = HeadBranch THEN m ELSE v],
                 tags |-> [t \in TagNames |-> NoRef],
                 objects |-> CommitIds]] :
        public \in BOOLEAN, m \in {NoRef, "c1", "c2"}, v \in {NoRef, "c1", "c2"}}

\* /{repo}/tree/{ref}/ : the tree requests a redirect of handleRepo leads to
LandingTreeRequests ==
    {[caller |-> c, repo |-> n, ref |-> ref, path |-> <<>>] :
        c \in Requesters, n \in RepoNames, ref \in BranchNames}

InitLanding ==
    /\ \E g \in LandingRepos :
           repos = [n \in RepoNames |-> IF n = "alpha" THEN g ELSE NoRepo]
    /\ admin = InstalledFiles
    /\ last = NoRequest
    /\ lit = <<>> /\ verdict = <<>> /\ hdrs = <<>> /\ clientIP = <<>>
    /\ refs = <<>> /\ res = <<>> /\ tree = <<>>
    /\ input = <<>> /\ output = <<>>

\* GET /{repo}
GetRepo ==
    /\ last = NoRequest
    /\ \E r \in RepoRequests : handleRepo(r)

\* the same caller requests the address handleRepo redirected to
FollowRedirect ==
    /\ last.handler = "handleRepo" /\ last.status = 302
    /\ \E t \in LandingTreeRequests :
          /\ t.caller = last.req.caller
          /\ t.repo = last.req.repo
          /\ t.ref = last.page[2]
          /\ handleTree(t)

NextLanding == GetRepo \/ FollowRedirect

SpecLanding == InitLanding /\ [][NextLanding]_vars

\* C30: a caller who is let in is shown the empty page iff HEAD does not
\* resolve and no branch exists, and is redirected otherwise; the request
\* of the redirect's address is answered with the tree listing.
C30_RedirectLeadsToListing ==
    /\ (last.handler = "handleRepo" /\ last.status \in {200, 302}) =>
          LET g == PlainOpen(last.req.repo)
          IN (last.status = 200 /\ last.page = <<"empty">>)
                <=> (RepoHead(g) = NoRef /\ NoBranches(g))
    /\ last.handler = "handleTree" => last.status = 200

====
